---------------------------- MODULE Spec2Model ----------------------------
(***************************************************************************)
(* Model of the context-aware LaTeX attack pipeline of                     *)
(* src/generalized_attack.py: DocumentAnalyzer, get_preamble_code,         *)
(* modify_body_content and create_exam_variant.                            *)
(*                                                                         *)
(* Text.  A Python str is modelled as a sequence of lexemes, each a TLA+   *)
(* string.  A lexeme is a single character, except that a run of           *)
(* characters which the code only ever matches or emits as a whole (a      *)
(* control word such as \begin, an environment or package name, a keyword, *)
(* a placeholder token, a literal chunk of generated code) is one lexeme.  *)
(* Every literal the code searches for is a whole number of lexemes, so    *)
(* substring search on lexemes agrees with substring search on characters. *)
(* Math bodies are written character by character, because the regular     *)
(* expressions of the analyzer work on single characters there.            *)
(***************************************************************************)
EXTENDS Integers, Sequences, FiniteSets, TLC

-----------------------------------------------------------------------------
(* Python str primitives on lexeme sequences *)

\* s[i:] == s[i+1..] in 1-based terms; From(s, i) keeps the lexemes at 1-based positions >= i
From(s, i) == SubSeq(s, i, Len(s))

\* s.startswith(p, i-1): p occurs in s at 1-based position i
MatchAt(s, p, i) ==
    /\ i >= 1
    /\ i + Len(p) - 1 <= Len(s)
    /\ \A k \in 1..Len(p) : s[i + k - 1] = p[k]

\* 1-based position of the first occurrence of p in s at or after position i, 0 when none
IndexFrom(s, p, i) ==
    LET found == {j \in i..(Len(s) - Len(p) + 1) : MatchAt(s, p, j)}
    IN  IF found = {} THEN 0 ELSE CHOOSE j \in found : \A k \in found : j <= k

\* p in s
Contains(s, p) == IndexFrom(s, p, 1) > 0

\* s.find(p): 0-based index of the first occurrence, -1 when none
Find(s, p) == IndexFrom(s, p, 1) - 1

\* s.replace(old, new): every non-overlapping occurrence, leftmost first;
\* an empty old matches before every character and at the end
RECURSIVE ReplaceFrom(_, _, _, _)
ReplaceFrom(s, old, new, i) ==
    IF Len(old) = 0
    THEN LET n == Len(s) - i + 1
             w == Len(new) + 1
         IN  [k \in 1..(n * w + Len(new)) |->
                 IF (k - 1) % w < Len(new) THEN new[((k - 1) % w) + 1]
                 ELSE s[i + ((k - 1) \div w)]]
    ELSE LET j == IndexFrom(s, old, i)
         IN  IF j = 0 THEN From(s, i)
             ELSE SubSeq(s, i, j - 1) \o new \o ReplaceFrom(s, old, new, j + Len(old))

Replace(s, old, new) == ReplaceFrom(s, old, new, 1)

\* s.count(p), non-overlapping occurrences of a non-empty p
RECURSIVE CountFrom(_, _, _)
CountFrom(s, p, i) ==
    IF i + Len(p) - 1 > Len(s) THEN 0
    ELSE IF MatchAt(s, p, i) THEN 1 + CountFrom(s, p, i + Len(p))
    ELSE CountFrom(s, p, i + 1)

Count(s, p) == CountFrom(s, p, 1)

\* len(s) in characters: the characters of all lexemes of s
RECURSIVE CharLen(_)
CharLen(s) == IF s = <<>> THEN 0 ELSE Len(Head(s)) + CharLen(Tail(s))

\* dict.get(key, default)
Get(d, key, default) == IF key \in DOMAIN d THEN d[key] ELSE default

-----------------------------------------------------------------------------
(* Character classes and the literals the code searches for *)

LOWER == {"a","b","c","d","e","f","g","h","i","j","k","l","m",
          "n","o","p","q","r","s","t","u","v","w","x","y","z"}
UPPER == {"A","B","C","D","E","F","G","H","I","J","K","L","M",
          "N","O","P","Q","R","S","T","U","V","W","X","Y","Z"}
DIGIT == {"0","1","2","3","4","5","6","7","8","9"}

\* [a-zA-Z0-9]
ALNUM == LOWER \cup UPPER \cup DIGIT

\* [a-zA-Z0-9\+\-\*\/\^\{\}\(\)]
EXPR_CLASS == ALNUM \cup {"+", "-", "*", "/", "^", "{", "}", "(", ")"}

\* str.lower() of one lexeme: an upper-case letter, or a capitalised keyword
LowerLexeme(c) ==
    CASE c = "A" -> "a" [] c = "B" -> "b" [] c = "C" -> "c" [] c = "D" -> "d"
      [] c = "E" -> "e" [] c = "F" -> "f" [] c = "G" -> "g" [] c = "H" -> "h"
      [] c = "I" -> "i" [] c = "J" -> "j" [] c = "K" -> "k" [] c = "L" -> "l"
      [] c = "M" -> "m" [] c = "N" -> "n" [] c = "O" -> "o" [] c = "P" -> "p"
      [] c = "Q" -> "q" [] c = "R" -> "r" [] c = "S" -> "s" [] c = "T" -> "t"
      [] c = "U" -> "u" [] c = "V" -> "v" [] c = "W" -> "w" [] c = "X" -> "x"
      [] c = "Y" -> "y" [] c = "Z" -> "z"
      [] c = "Calculus" -> "calculus" [] c = "Derivative" -> "derivative"
      [] c = "Probability" -> "probability" [] c = "Random" -> "random"
      [] c = "Linear" -> "linear" [] c = "Algebra" -> "algebra"
      [] c = "Complex" -> "complex" [] c = "Analysis" -> "analysis"
      [] c = "Variable" -> "variable" [] c = "Discrete" -> "discrete"
      [] c = "Graph" -> "graph" [] c = "Machine" -> "machine"
      [] c = "Learning" -> "learning" [] c = "Neural" -> "neural"
      [] OTHER -> c

\* str.lower()
ToLower(s) == [k \in 1..Len(s) |-> LowerLexeme(s[k])]

WATERMARK_AREA == <<"%%WATERMARK_AREA%%">>
TRAP_QUESTION_AREA == <<"%%TRAP_QUESTION_AREA%%">>
BEGIN_DOCUMENT == <<"\\begin", "{", "document", "}">>
END_DOCUMENT == <<"\\end", "{", "document", "}">>
BEGIN_FIGURE == <<"\\begin", "{", "figure", "}">>
END_FIGURE == <<"\\end", "{", "figure", "}">>
BEGIN_ENUMERATE == <<"\\begin", "{", "enumerate", "}">>
INCLUDEGRAPHICS == <<"\\include", "graph", "ics">>
USEPACKAGE_LAYOUTS == <<"\\usepackage", "{", "layouts", "}">>
ADD_TO_SHIPOUT == <<"\\AddToShipoutPictureBG">>
LABEL_OPEN == <<"\\", "l", "a", "b", "e", "l", "{">>
FRAC_D_DX == <<"\\", "f", "r", "a", "c", "{", "d", "}", "{", "d", "x", "}">>

BeginEnv(e) == <<"\\begin", "{", e, "}">>
EndEnv(e) == <<"\\end", "{", e, "}">>

-----------------------------------------------------------------------------
(* class DocumentAnalyzer *)

\* (align|equation|gather|multline|array|matrix|pmatrix|bmatrix|vmatrix)
ENV_NAMES == {"align", "equation", "gather", "multline", "array",
              "matrix", "pmatrix", "bmatrix", "vmatrix"}

\* re.findall(\\begin\{(...)\}(.*?)\\end\{\1\}, DOTALL): leftmost matches, each body
\* running to the first matching \end, the scan resuming after the match
RECURSIVE FindEnvsFrom(_, _)
FindEnvsFrom(s, i) ==
    IF i > Len(s) THEN <<>>
    ELSE LET opened == {e \in ENV_NAMES : MatchAt(s, BeginEnv(e), i)}
         IN  IF opened = {} THEN FindEnvsFrom(s, i + 1)
             ELSE LET e == CHOOSE x \in opened : TRUE
                      j == IndexFrom(s, EndEnv(e), i + 4)
                  IN  IF j = 0 THEN FindEnvsFrom(s, i + 1)
                      ELSE <<[env |-> e, content |-> SubSeq(s, i + 4, j - 1)]>>
                               \o FindEnvsFrom(s, j + 4)

_find_math_environments(tex) == FindEnvsFrom(tex, 1)

\* re.findall(\$(.*?)\$|\\\((.*?)\\\), DOTALL): pairs (group 1, group 2), the
\* group that did not take part being the empty string
RECURSIVE FindInlineFrom(_, _)
FindInlineFrom(s, i) ==
    IF i > Len(s) THEN <<>>
    ELSE IF s[i] = "$" /\ IndexFrom(s, <<"$">>, i + 1) > 0
         THEN LET j == IndexFrom(s, <<"$">>, i + 1)
              IN  <<<<SubSeq(s, i + 1, j - 1), <<>>>>>> \o FindInlineFrom(s, j + 1)
    ELSE IF MatchAt(s, <<"\\", "(">>, i) /\ IndexFrom(s, <<"\\", ")">>, i + 2) > 0
         THEN LET j == IndexFrom(s, <<"\\", ")">>, i + 2)
              IN  <<<<<<>>, SubSeq(s, i + 2, j - 1)>>>> \o FindInlineFrom(s, j + 2)
    ELSE FindInlineFrom(s, i + 1)

_extract_math_expressions(tex) == FindInlineFrom(tex, 1)

\* first position k >= from holding ch, no line break before it ("." excludes "\n"); 0 when none
RECURSIVE ScanTo(_, _, _)
ScanTo(s, ch, k) ==
    IF k > Len(s) \/ s[k] = "\n" THEN 0
    ELSE IF s[k] = ch THEN k
    ELSE ScanTo(s, ch, k + 1)

\* first position k >= from holding "]" directly followed by "{", on the same line; 0 when none
RECURSIVE ScanBracket(_, _)
ScanBracket(s, k) ==
    IF k > Len(s) \/ s[k] = "\n" THEN 0
    ELSE IF s[k] = "]" /\ k + 1 <= Len(s) /\ s[k + 1] = "{" THEN k
    ELSE ScanBracket(s, k + 1)

\* the pattern  cmd(?:\[(.*?)\])?\{(.*?)\}  tried at position i:
\* [ok, options (group 1 or ""), arg (group 2), last (position of the closing brace)]
CmdMatch(s, cmd, i) ==
    LET a == i + Len(cmd)
        kb == IF a <= Len(s) /\ s[a] = "[" THEN ScanBracket(s, a + 1) ELSE 0
        kc == IF kb > 0 THEN ScanTo(s, "}", kb + 2) ELSE 0
        kd == IF a <= Len(s) /\ s[a] = "{" THEN ScanTo(s, "}", a + 1) ELSE 0
    IN  IF ~MatchAt(s, cmd, i) THEN [ok |-> FALSE]
        ELSE IF kc > 0
             THEN [ok |-> TRUE, options |-> SubSeq(s, a + 1, kb - 1),
                   arg |-> SubSeq(s, kb + 2, kc - 1), last |-> kc]
        ELSE IF kd > 0
             THEN [ok |-> TRUE, options |-> <<>>,
                   arg |-> SubSeq(s, a + 1, kd - 1), last |-> kd]
        ELSE [ok |-> FALSE]

RECURSIVE DocClassFrom(_, _)
DocClassFrom(s, i) ==
    IF i > Len(s) THEN [class |-> <<"article">>, options |-> <<>>]
    ELSE LET m == CmdMatch(s, <<"\\documentclass">>, i)
         IN  IF m.ok THEN [class |-> m.arg, options |-> m.options]
             ELSE DocClassFrom(s, i + 1)

_extract_document_class(tex) == DocClassFrom(tex, 1)

RECURSIVE PackagesFrom(_, _)
PackagesFrom(s, i) ==
    IF i > Len(s) THEN <<>>
    ELSE LET m == CmdMatch(s, <<"\\usepackage">>, i)
         IN  IF m.ok THEN <<[name |-> m.arg, options |-> m.options]>>
                              \o PackagesFrom(s, m.last + 1)
             ELSE PackagesFrom(s, i + 1)

_extract_packages(tex) == PackagesFrom(tex, 1)

\* DocumentAnalyzer.__init__
DocumentAnalyzer(tex) ==
    [tex_content |-> tex,
     has_figures |-> Contains(tex, BEGIN_FIGURE) \/ Contains(tex, INCLUDEGRAPHICS),
     has_enums |-> Contains(tex, BEGIN_ENUMERATE),
     has_complex_math |-> Contains(tex, BeginEnv("align")) \/ Contains(tex, BeginEnv("equation")),
     math_environments |-> _find_math_environments(tex),
     math_expressions |-> _extract_math_expressions(tex),
     document_class |-> _extract_document_class(tex),
     packages |-> _extract_packages(tex)]

\* re.sub(\\\\|\\label\{.*?\}, ' ', content): a line break command or a label
\* becomes one space
RECURSIVE CleanFrom(_, _)
CleanFrom(s, i) ==
    IF i > Len(s) THEN <<>>
    ELSE IF MatchAt(s, <<"\\", "\\">>, i) THEN <<" ">> \o CleanFrom(s, i + 2)
    ELSE IF MatchAt(s, LABEL_OPEN, i) /\ ScanTo(s, "}", i + Len(LABEL_OPEN)) > 0
         THEN <<" ">> \o CleanFrom(s, ScanTo(s, "}", i + Len(LABEL_OPEN)) + 1)
    ELSE <<s[i]>> \o CleanFrom(s, i + 1)

\* last position of the run of EXPR_CLASS characters that starts at k (k - 1 when empty)
RECURSIVE RunEnd(_, _)
RunEnd(s, k) ==
    IF k > Len(s) \/ s[k] \notin EXPR_CLASS THEN k - 1 ELSE RunEnd(s, k + 1)

\* last position in lo..k holding an alphanumeric character, 0 when none
RECURSIVE LastAlnum(_, _, _)
LastAlnum(s, k, lo) ==
    IF k < lo THEN 0 ELSE IF s[k] \in ALNUM THEN k ELSE LastAlnum(s, k - 1, lo)

\* re.findall([a-zA-Z0-9](?:[a-zA-Z0-9\+\-\*\/\^\{\}\(\)]{3,}[a-zA-Z0-9]), cleaned):
\* an alphanumeric, then greedily at least three class characters, backing off to
\* end on an alphanumeric
RECURSIVE ExpressionsFrom(_, _)
ExpressionsFrom(s, i) ==
    IF i > Len(s) THEN <<>>
    ELSE LET e == IF s[i] \in ALNUM THEN LastAlnum(s, RunEnd(s, i + 1), i + 4) ELSE 0
         IN  IF e > 0 THEN <<SubSeq(s, i, e)>> \o ExpressionsFrom(s, e + 1)
             ELSE ExpressionsFrom(s, i + 1)

\* expr.startswith('\\')
StartsWithBackslash(expr) == Len(expr) > 0 /\ expr[1] = "\\"

\* the candidates of one environment body (lines 63-69)
EnvCandidates(content) ==
    SelectSeq(ExpressionsFrom(CleanFrom(content, 1), 1),
              LAMBDA expr : CharLen(expr) > 5 /\ ~StartsWithBackslash(expr))

RECURSIVE AllEnvCandidates(_)
AllEnvCandidates(envs) ==
    IF envs = <<>> THEN <<>>
    ELSE EnvCandidates(Head(envs).content) \o AllEnvCandidates(Tail(envs))

\* the candidates of the inline expressions (lines 73-77)
RECURSIVE InlineCandidates(_)
InlineCandidates(exprs) ==
    IF exprs = <<>> THEN <<>>
    ELSE LET expr == Head(exprs)
             expr_text == IF expr[1] /= <<>> THEN expr[1] ELSE expr[2]
         IN  (IF CharLen(expr_text) > 5 THEN <<expr_text>> ELSE <<>>)
                 \o InlineCandidates(Tail(exprs))

\* the slice s[:n]
Prefix(s, n) == SubSeq(s, 1, IF Len(s) < n THEN Len(s) ELSE n)

\* DocumentAnalyzer.get_target_math_for_attacks
get_target_math_for_attacks(self) ==
    LET fromEnvs == AllEnvCandidates(self.math_environments)
        candidates == IF Len(fromEnvs) < 3
                      THEN fromEnvs \o InlineCandidates(self.math_expressions)
                      ELSE fromEnvs
    IN  Prefix(candidates, 5)

\* a wrong priority: the probability indicators looked for before those of calculus
get_subject_hint_probability_first(self) ==
    LET content_lower == ToLower(self.tex_content)
        has(p) == Contains(content_lower, p)
    IN  IF has(<<"probability">>) \/ has(<<"random">>)
        THEN "probability"
        ELSE IF has(<<"calculus">>) \/ has(<<"derivative">>) \/ has(FRAC_D_DX)
        THEN "calculus"
        ELSE IF has(<<"linear", " ", "algebra">>) \/ has(BeginEnv("matrix"))
        THEN "linear_algebra"
        ELSE IF has(<<"complex">>) /\ (has(<<"analysis">>) \/ has(<<"variable">>))
        THEN "complex_analysis"
        ELSE IF has(<<"discrete">>) \/ has(<<"graph">>)
        THEN "discrete_math"
        ELSE IF has(<<"machine", " ", "learning">>) \/ has(<<"neural">>)
        THEN "machine_learning"
        ELSE "general_math"

\* DocumentAnalyzer.get_subject_hint
get_subject_hint(self) ==
    LET content_lower == ToLower(self.tex_content)
        has(p) == Contains(content_lower, p)
    IN  IF has(<<"calculus">>) \/ has(<<"derivative">>) \/ has(FRAC_D_DX)
        THEN "calculus"
        ELSE IF has(<<"probability">>) \/ has(<<"random">>)
        THEN "probability"
        ELSE IF has(<<"linear", " ", "algebra">>) \/ has(BeginEnv("matrix"))
        THEN "linear_algebra"
        ELSE IF has(<<"complex">>) /\ (has(<<"analysis">>) \/ has(<<"variable">>))
        THEN "complex_analysis"
        ELSE IF has(<<"discrete">>) \/ has(<<"graph">>)
        THEN "discrete_math"
        ELSE IF has(<<"machine", " ", "learning">>) \/ has(<<"neural">>)
        THEN "machine_learning"
        ELSE "general_math"

-----------------------------------------------------------------------------
(* Numbers.  A Python float is modelled as an exact rational <<n, d>> in  *)
(* lowest terms with d > 0; an int is a TLA+ integer.                      *)

RECURSIVE Gcd(_, _)
Gcd(a, b) == IF b = 0 THEN a ELSE Gcd(b, a % b)

Abs(n) == IF n < 0 THEN -n ELSE n

Rat(n, d) ==
    LET g == Gcd(Abs(n), Abs(d))
        sgn == IF d < 0 THEN -1 ELSE 1
    IN  IF n = 0 THEN <<0, 1>> ELSE <<sgn * (n \div g), sgn * (d \div g)>>

RatMul(p, q) == Rat(p[1] * q[1], p[2] * q[2])
RatDiv(p, q) == Rat(p[1] * q[2], p[2] * q[1])
RatPos(p) == p[1] > 0

\* the text an f-string gives an int
FmtInt(n) == ToString(n)

\* the text an f-string gives a float: one lexeme per value, distinct values
\* giving distinct lexemes (repr() of a float round-trips)
FmtFloat(p) == ToString(p[1]) \o "/" \o ToString(p[2])

-----------------------------------------------------------------------------
(* get_preamble_code *)

\* doc_analyzer = None
None == [none |-> TRUE]

\* the truth value of doc_analyzer in "context_level >= n and doc_analyzer"
IsAnalyzer(doc_analyzer) == doc_analyzer /= None

\* a wrong default: an attack without a type taken for a watermark
TypeOf_default_watermark(attack_params) == Get(attack_params, "type", "watermark")

\* attack_params.get('type', 'none'), attack_params.get('params', {})
TypeOf(attack_params) == Get(attack_params, "type", "none")
ParamsOf(attack_params) == Get(attack_params, "params", <<>>)

\* lines 169-178
dimension_setup ==
    <<"\n">> \o USEPACKAGE_LAYOUTS \o
    <<"\n\\usepackage{atbegshi}\n\\newlength\\pgwidth\n\\newlength\\pgheight\n\\AtBeginDocument{%\n  \\pgwidth=\\paperwidth\n  \\pgheight=\\paperheight\n}\n">>

NEEDS_DIMENSIONS == {"watermark_tiled", "texture", "background_color"}

\* the dimension setup added without asking whether the attack needs it
DimensionPart_ungated(attack_type, context_level, doc_analyzer) ==
    IF context_level >= 2 /\ IsAnalyzer(doc_analyzer)
    THEN IF ~(\E k \in 1..Len(doc_analyzer.packages) :
                  doc_analyzer.packages[k].name = <<"layouts">>)
         THEN dimension_setup ELSE <<>>
    ELSE dimension_setup

\* a wrong gate: the packages of the document looked at from level 0 on
DimensionPart_gate_0(attack_type, context_level, doc_analyzer) ==
    IF context_level >= 0 /\ IsAnalyzer(doc_analyzer)
    THEN IF ~(\E k \in 1..Len(doc_analyzer.packages) :
                  doc_analyzer.packages[k].name = <<"layouts">>)
         THEN IF attack_type \in NEEDS_DIMENSIONS THEN dimension_setup ELSE <<>>
         ELSE <<>>
    ELSE IF attack_type \in NEEDS_DIMENSIONS THEN dimension_setup ELSE <<>>

\* lines 180-186: the dimension setup an attack starts its code with
DimensionPart(attack_type, context_level, doc_analyzer) ==
    IF context_level >= 2 /\ IsAnalyzer(doc_analyzer)
    THEN IF ~(\E k \in 1..Len(doc_analyzer.packages) :
                  doc_analyzer.packages[k].name = <<"layouts">>)
              /\ attack_type \in NEEDS_DIMENSIONS
         THEN dimension_setup ELSE <<>>
    ELSE IF attack_type \in NEEDS_DIMENSIONS THEN dimension_setup ELSE <<>>

\* lines 188-210
WatermarkCode(params, context_level, doc_analyzer) ==
    LET text == Get(params, "text", <<"EXAM COPY">>)
        color0 == Get(params, "color", <<"gray!10">>)
        angle == Get(params, "angle", 45)
        size == Get(params, "size", 5)
        color == IF context_level >= 2 /\ IsAnalyzer(doc_analyzer) /\ doc_analyzer.has_figures
                 THEN Replace(color0, <<"gray!10">>, <<"gray!8">>) ELSE color0
    IN  <<"\n\\usepackage{eso-pic}\n">> \o ADD_TO_SHIPOUT
        \o <<"{%\n  \\AtPageCenter{%\n    \\rotatebox{", FmtInt(angle),
             "}{%\n      \\scalebox{", FmtInt(size), "}{%\n        \\textcolor{">>
        \o color \o <<"}{">> \o text \o <<"}%\n      }%\n    }%\n  }%\n}\n">>

\* lines 230-237
WatermarkSubjectText(subject, text) ==
    CASE subject = "calculus" -> <<"f\\'(x)">>
      [] subject = "complex_analysis" -> <<"f(z)">>
      [] subject = "discrete_math" -> <<"G(V,E)">>
      [] subject = "linear_algebra" -> <<"A\\vec{x}">>
      [] subject = "probability" -> <<"P(X)">>
      [] subject = "machine_learning" -> <<"\\nabla J">>
      [] OTHER -> text

\* a wrong gate: the figure adjustment of the tiling made at level 1 alone
WatermarkTiledValues_level_1_alone(params, context_level, doc_analyzer) ==
    LET figures == context_level = 1 /\ IsAnalyzer(doc_analyzer) /\ doc_analyzer.has_figures
        text0 == Get(params, "text", <<"WATERMARK">>)
    IN  [text |-> IF context_level >= 3 /\ IsAnalyzer(doc_analyzer) /\ "text" \notin DOMAIN params
                  THEN WatermarkSubjectText(get_subject_hint(doc_analyzer), text0)
                  ELSE text0,
         color |-> Get(params, "color", <<"gray!12">>),
         size |-> Get(params, "size", 8),
         angle |-> Get(params, "angle", 30),
         x_step |-> Get(params, "x_step", 5) + (IF figures THEN 1 ELSE 0),
         y_step |-> Get(params, "y_step", 4) + (IF figures THEN 1 ELSE 0)]

\* lines 213-238: the values the tiling code is generated from
WatermarkTiledValues(params, context_level, doc_analyzer) ==
    LET figures == context_level >= 1 /\ IsAnalyzer(doc_analyzer) /\ doc_analyzer.has_figures
        text0 == Get(params, "text", <<"WATERMARK">>)
    IN  [text |-> IF context_level >= 3 /\ IsAnalyzer(doc_analyzer) /\ "text" \notin DOMAIN params
                  THEN WatermarkSubjectText(get_subject_hint(doc_analyzer), text0)
                  ELSE text0,
         color |-> Get(params, "color", <<"gray!12">>),
         size |-> Get(params, "size", 8),
         angle |-> Get(params, "angle", 30),
         x_step |-> Get(params, "x_step", 5) + (IF figures THEN 1 ELSE 0),
         y_step |-> Get(params, "y_step", 4) + (IF figures THEN 1 ELSE 0)]

\* a wrong tiling: the step itself written as the second term of each loop
WatermarkTiledCode_step_as_term(params, context_level, doc_analyzer) ==
    LET v == WatermarkTiledValues(params, context_level, doc_analyzer)
    IN  <<"\n">> \o ADD_TO_SHIPOUT
        \o <<"{%\n  \\begin{tikzpicture}[remember picture, overlay]\n    % Fixed loop to use fixed steps instead of calculated dimensions\n    \\foreach \\x in {1,",
             FmtInt(v.x_step), ",...,20} {\n      \\foreach \\y in {1,",
             FmtInt(v.y_step), ",...,28} {\n        \\node[rotate=",
             FmtInt(v.angle), ", color=">>
        \o v.color
        \o <<", anchor=center] at (\\x cm, \\y cm) {\\fontsize{", FmtInt(v.size),
             "}{", FmtInt(v.size + 2), "}\\selectfont $">>
        \o v.text
        \o <<"$};\n      }\n    }\n  \\end{tikzpicture}%\n}\n">>

\* lines 212-251
WatermarkTiledCode(params, context_level, doc_analyzer) ==
    LET v == WatermarkTiledValues(params, context_level, doc_analyzer)
    IN  <<"\n">> \o ADD_TO_SHIPOUT
        \o <<"{%\n  \\begin{tikzpicture}[remember picture, overlay]\n    % Fixed loop to use fixed steps instead of calculated dimensions\n    \\foreach \\x in {1,",
             FmtInt(1 + v.x_step), ",...,20} {\n      \\foreach \\y in {1,",
             FmtInt(1 + v.y_step), ",...,28} {\n        \\node[rotate=",
             FmtInt(v.angle), ", color=">>
        \o v.color
        \o <<", anchor=center] at (\\x cm, \\y cm) {\\fontsize{", FmtInt(v.size),
             "}{", FmtInt(v.size + 2), "}\\selectfont $">>
        \o v.text
        \o <<"$};\n      }\n    }\n  \\end{tikzpicture}%\n}\n">>

\* lines 269-276
TextureSubjectPattern(subject, pattern) ==
    CASE subject = "calculus" -> "wave"
      [] subject = "complex_analysis" -> "circles"
      [] subject = "discrete_math" -> "grid"
      [] subject = "linear_algebra" -> "lines"
      [] subject = "probability" -> "dots"
      [] subject = "machine_learning" -> "dots"
      [] OTHER -> pattern

\* a wrong step: the division made whatever the density
StepOf_unguarded(density) == RatDiv(<<2, 1>>, density)

\* step = 2.0 / density if density > 0 else 2.0   (lines 256 and 262)
StepOf(density) == IF RatPos(density) THEN RatDiv(<<2, 1>>, density) ELSE <<2, 1>>

\* a wrong default: the subject's pattern taken even when the caller named one
TextureValues_subject_always(params, context_level, doc_analyzer) ==
    LET pattern0 == Get(params, "pattern", "dots")
        density0 == Get(params, "density", <<7, 10>>)
        color0 == Get(params, "color", <<"gray!10">>)
        figures == context_level >= 1 /\ IsAnalyzer(doc_analyzer) /\ doc_analyzer.has_figures
        density == IF figures THEN RatMul(density0, <<8, 10>>) ELSE density0
    IN  [pattern |-> IF context_level >= 3 /\ IsAnalyzer(doc_analyzer)
                     THEN TextureSubjectPattern(get_subject_hint(doc_analyzer), pattern0)
                     ELSE pattern0,
         density |-> density,
         step |-> StepOf(density),
         color |-> IF figures THEN Replace(color0, <<"gray!10">>, <<"gray!8">>) ELSE color0]

\* lines 253-276: the values the pattern code is generated from
TextureValues(params, context_level, doc_analyzer) ==
    LET pattern0 == Get(params, "pattern", "dots")
        density0 == Get(params, "density", <<7, 10>>)
        color0 == Get(params, "color", <<"gray!10">>)
        figures == context_level >= 1 /\ IsAnalyzer(doc_analyzer) /\ doc_analyzer.has_figures
        density == IF figures THEN RatMul(density0, <<8, 10>>) ELSE density0
    IN  [pattern |-> IF context_level >= 3 /\ IsAnalyzer(doc_analyzer)
                        /\ "pattern" \notin DOMAIN params
                     THEN TextureSubjectPattern(get_subject_hint(doc_analyzer), pattern0)
                     ELSE pattern0,
         density |-> density,
         step |-> StepOf(density),
         color |-> IF figures THEN Replace(color0, <<"gray!10">>, <<"gray!8">>) ELSE color0]

\* lines 252-324
TextureCode(params, context_level, doc_analyzer) ==
    LET v == TextureValues(params, context_level, doc_analyzer)
        step == FmtFloat(v.step)
        open == <<"\n">> \o ADD_TO_SHIPOUT
                  \o <<"{%\n  \\begin{tikzpicture}[remember picture, overlay]\n">>
        close == <<"  \\end{tikzpicture}%\n}">>
    IN  CASE v.pattern = "dots" ->
               open \o <<"    \\foreach \\x in {0,", step, ",...,20} {\n      \\foreach \\y in {0,",
                         step, ",...,28} {\n        \\node[circle, fill=">>
                    \o v.color
                    \o <<", inner sep=0.2pt] at (\\x cm, \\y cm) {};\n      }\n    }\n">> \o close
          [] v.pattern = "lines" ->
               open \o <<"    \\foreach \\x in {0,", step, ",...,20} {\\draw[">> \o v.color
                    \o <<", thin] (\\x,0) -- (\\x,28);}\n    \\foreach \\y in {0,", step,
                         ",...,28} {\\draw[">> \o v.color
                    \o <<", thin] (0,\\y) -- (20,\\y);}\n">> \o close
          [] v.pattern = "wave" ->
               open \o <<"    \\foreach \\i in {0,1,...,20} {\n      \\draw[">> \o v.color
                    \o <<", thin] \n        plot[domain=0:20, samples=100, smooth] \n        (\\x, {\\i*",
                         step, " + 0.1*sin(\\x*90)});\n    }\n">> \o close
          [] v.pattern = "circles" ->
               open \o <<"    \\foreach \\i in {1,2,...,10} {\n      \\draw[">> \o v.color
                    \o <<", thin] (10,14) circle (\\i*", FmtFloat(RatMul(v.step, <<2, 1>>)),
                         "cm);\n    }\n">> \o close
          [] v.pattern = "grid" ->
               open \o <<"    \\draw[">> \o v.color \o <<", thin, step=", step,
                         "cm] (0,0) grid (20,28);\n">> \o close
          [] OTHER -> <<>>

\* ''.join(c for c in symbol if c.isalnum()), "weirdsymbol" when that is empty,
\* prefixed with \weird   (lines 329-332, 347-350, 453-456)
CommandName(symbol) ==
    LET safe_name == SelectSeq(symbol, LAMBDA c : c \in ALNUM)
    IN  <<"\\weird">> \o (IF safe_name = <<>> THEN <<"weirdsymbol">> ELSE safe_name)

\* lines 337-344
FontSwapSubjectSymbol(subject, symbol) ==
    CASE subject = "calculus" -> <<"+">>
      [] subject = "complex_analysis" -> <<"z">>
      [] subject = "discrete_math" -> <<"\\", "i", "n">>
      [] subject = "linear_algebra" -> <<"=">>
      [] subject = "probability" -> <<"(">>
      [] subject = "machine_learning" -> <<"\\", "t", "h", "e", "t", "a">>
      [] OTHER -> symbol

\* a wrong gate: the symbol adapted to the subject from level 3 on only
FontSwapValues_gate_3(params, context_level, doc_analyzer) ==
    LET symbol0 == Get(params, "symbol_to_swap", <<"+">>)
        symbol == IF context_level >= 3 /\ IsAnalyzer(doc_analyzer)
                     /\ "symbol_to_swap" \notin DOMAIN params
                  THEN FontSwapSubjectSymbol(get_subject_hint(doc_analyzer), symbol0)
                  ELSE symbol0
    IN  [font_name |-> Get(params, "font_name", <<"Comic Sans MS">>),
         symbol |-> symbol,
         command_name |-> CommandName(symbol)]

\* lines 327-350: the symbol and the command the preamble defines
FontSwapValues(params, context_level, doc_analyzer) ==
    LET symbol0 == Get(params, "symbol_to_swap", <<"+">>)
        symbol == IF context_level >= 2 /\ IsAnalyzer(doc_analyzer)
                     /\ "symbol_to_swap" \notin DOMAIN params
                  THEN FontSwapSubjectSymbol(get_subject_hint(doc_analyzer), symbol0)
                  ELSE symbol0
    IN  [font_name |-> Get(params, "font_name", <<"Comic Sans MS">>),
         symbol |-> symbol,
         command_name |-> CommandName(symbol)]

\* lines 326-357
FontSwapCode(params, context_level, doc_analyzer) ==
    LET v == FontSwapValues(params, context_level, doc_analyzer)
    IN  <<"\n% Ensure fontspec is loaded with proper options\n\\RequirePackage{fontspec}\n\\newfontfamily\\weirdfont{">>
        \o v.font_name \o <<"}[Scale=1.0]\n\\newcommand{">> \o v.command_name
        \o <<"}{{\\weirdfont ">> \o v.symbol \o <<"}}\n">>

\* lines 359-387
BackgroundColorCode(params) ==
    LET color == Get(params, "color", <<"yellow!3">>)
        mode == Get(params, "mode", "full")
        open == <<"\n">> \o ADD_TO_SHIPOUT
                  \o <<"{%\n  \\begin{tikzpicture}[remember picture, overlay]\n">>
        close == <<"  \\end{tikzpicture}%\n}">>
    IN  CASE mode = "full" ->
               open \o <<"    \\fill[">> \o color
                    \o <<"] (current page.south west) rectangle (current page.north east);\n">>
                    \o close
          [] mode = "gradient" ->
               open \o <<"    \\shade[left color=">> \o color
                    \o <<", right color=white] \n      (current page.south west) rectangle (current page.north east);\n">>
                    \o close
          [] mode = "sections" ->
               open \o <<"    \\foreach \\i in {0,2,...,28} {\n      \\fill[">> \o color
                    \o <<"] (0, \\i) rectangle (20, \\i+1);\n    }\n">> \o close
          [] OTHER -> <<>>

\* get_preamble_code(attack_params, context_level, doc_analyzer)
get_preamble_code(attack_params, context_level, doc_analyzer) ==
    LET attack_type == TypeOf(attack_params)
        params == ParamsOf(attack_params)
        code == DimensionPart(attack_type, context_level, doc_analyzer)
    IN  CASE attack_type = "watermark" ->
               code \o WatermarkCode(params, context_level, doc_analyzer)
          [] attack_type = "watermark_tiled" ->
               code \o WatermarkTiledCode(params, context_level, doc_analyzer)
          [] attack_type = "texture" ->
               code \o TextureCode(params, context_level, doc_analyzer)
          [] attack_type = "font_swap" ->
               FontSwapCode(params, context_level, doc_analyzer)
          [] attack_type = "background_color" ->
               code \o BackgroundColorCode(params)
          [] OTHER -> code

-----------------------------------------------------------------------------
(* modify_body_content *)

\* what a call gives its caller: a returned value, or a raised exception
Returned(v) == [raised |-> FALSE, value |-> v]
Raised(e) == [raised |-> TRUE, error |-> e]

\* the characters re.escape puts a backslash before
RE_SPECIAL == {"(", ")", "[", "]", "{", "}", "?", "*", "+", "-", "|", "^", "$",
               "\\", ".", "&", "~", "#", " ", "\t", "\n", "\r"}

\* re.escape(target), target written character by character
RECURSIVE re_escape(_)
re_escape(s) ==
    IF s = <<>> THEN <<>>
    ELSE (IF Head(s) \in RE_SPECIAL THEN <<"\\", Head(s)>> ELSE <<Head(s)>>)
             \o re_escape(Tail(s))

\* the text \mkern{amount}em
Mkern(amount) == <<"\\mkern", FmtFloat(amount), "em">>

\* lines 412-422: kerning with an explicit target
KerningExplicit(content, target, amount) ==
    LET mathPattern == <<"$">> \o re_escape(target) \o <<"$">>
        replacement == <<"$">> \o target \o Mkern(amount) \o <<"$">>
    IN  Replace(content, mathPattern, replacement)

\* lines 431-444: one re.sub per target, on the evolving content
RECURSIVE KerningAuto(_, _, _)
KerningAuto(modified_content, targets, amount) ==
    IF targets = <<>> THEN modified_content
    ELSE LET target == Head(targets)
         IN  IF CharLen(target) < 5
             THEN KerningAuto(modified_content, Tail(targets), amount)
             ELSE KerningAuto(Replace(modified_content, target, target \o Mkern(amount)),
                              Tail(targets), amount)

\* lines 466-473: the symbol replaced inside each recorded environment
RECURSIVE FontSwapEnvironments(_, _, _, _)
FontSwapEnvironments(modified_content, envs, symbol, command_name) ==
    IF envs = <<>> THEN modified_content
    ELSE LET e == Head(envs)
             modified_env == Replace(e.content, symbol, command_name)
         IN  FontSwapEnvironments(
                 Replace(modified_content,
                         BeginEnv(e.env) \o e.content \o EndEnv(e.env),
                         BeginEnv(e.env) \o modified_env \o EndEnv(e.env)),
                 Tail(envs), symbol, command_name)

\* the text \linespread{factor}
Linespread(factor) == <<"\\linespread{", FmtFloat(factor), "}">>

\* LineSpacingParts with the directive before the whole content only
LineSpacingParts_global(content, i, factor) ==
    <<"\\linespread{", FmtFloat(factor), "}">> \o From(content, i)

\* lines 486-495: re.split((\\begin\{figure\}.*?\\end\{figure\}), DOTALL), every
\* part outside a figure prefixed with the directive, the parts joined again
RECURSIVE LineSpacingParts(_, _, _)
LineSpacingParts(content, i, factor) ==
    LET b == IndexFrom(content, BEGIN_FIGURE, i)
        e == IF b > 0 THEN IndexFrom(content, END_FIGURE, b + Len(BEGIN_FIGURE)) ELSE 0
    IN  IF e = 0 THEN Linespread(factor) \o From(content, i)
        ELSE Linespread(factor) \o SubSeq(content, i, b - 1)
                 \o SubSeq(content, b, e + Len(END_FIGURE) - 1)
                 \o LineSpacingParts(content, e + Len(END_FIGURE), factor)

\* modify_body_content(content, attack_params, context_level, doc_analyzer)
modify_body_content(content, attack_params, context_level, doc_analyzer) ==
    LET attack_type == TypeOf(attack_params)
        params == ParamsOf(attack_params)
    IN  CASE attack_type = "kerning" ->
               LET amount == Get(params, "amount", <<-1, 20>>)
               IN  IF "target" \in DOMAIN params
                   THEN Returned(KerningExplicit(content, params.target, amount))
                   ELSE IF context_level >= 2 /\ IsAnalyzer(doc_analyzer)
                   THEN Returned(KerningAuto(content,
                                             get_target_math_for_attacks(doc_analyzer),
                                             amount))
                   ELSE Returned(content)
          [] attack_type = "font_swap" ->
               LET symbol == Get(params, "symbol_to_swap", <<"+">>)
                   command_name == CommandName(symbol)
               IN  IF context_level >= 3 /\ IsAnalyzer(doc_analyzer)
                      /\ doc_analyzer.has_complex_math
                   THEN Returned(FontSwapEnvironments(content, doc_analyzer.math_environments,
                                                      symbol, command_name))
                   ELSE Returned(Replace(content, symbol, command_name))
          [] attack_type = "line_spacing" ->
               LET factor == Get(params, "factor", <<11, 10>>)
               IN  IF context_level >= 1 /\ IsAnalyzer(doc_analyzer)
                      /\ doc_analyzer.has_figures
                   THEN Returned(LineSpacingParts(content, 1, factor))
                   ELSE Returned(Linespread(factor) \o content)
          [] attack_type = "symbol_stretch" ->
               \* lines 509-513: re.sub parses its replacement template, which holds
               \* command_def and so the escapes \s of \stretchedsymbol and \scalebox;
               \* \s is no escape of a template and re.error is raised, whatever the
               \* content and whether or not the pattern occurs in it
               Raised("re.error")
          [] OTHER -> Returned(content)

-----------------------------------------------------------------------------
(* create_exam_variant *)

\* a wrong accumulation: each member's code put in front of what was accumulated
ComboPreambleAppend_prepend(preamble_mods, sub_attack, sub_attacks, context_level, doc_analyzer) ==
    get_preamble_code(sub_attack, context_level, doc_analyzer) \o preamble_mods

\* a wrong accumulation: a texture's code without the marker kept whole
ComboPreambleAppend_keep(preamble_mods, sub_attack, sub_attacks, context_level, doc_analyzer) ==
    LET preamble_code == get_preamble_code(sub_attack, context_level, doc_analyzer)
        setup_end == Find(preamble_code, ADD_TO_SHIPOUT)
    IN  IF Get(sub_attack, "type", "None") = "texture"
           /\ \E n \in 1..Len(sub_attacks) : Get(sub_attacks[n], "type", "None") = "watermark_tiled"
           /\ Contains(preamble_code, USEPACKAGE_LAYOUTS)
           /\ Contains(preamble_mods, USEPACKAGE_LAYOUTS)
           /\ setup_end > 0
        THEN preamble_mods \o From(preamble_code, setup_end + 1)
        ELSE preamble_mods \o preamble_code

\* a combo among the members taken apart: the code of its first member added
ComboPreambleAppend_nested(preamble_mods, sub_attack, sub_attacks, context_level, doc_analyzer) ==
    LET inner == Get(Get(sub_attack, "params", <<>>), "sub_attacks", <<>>)
        preamble_code == IF Get(sub_attack, "type", "None") = "combo" /\ inner /= <<>>
                         THEN get_preamble_code(inner[1], context_level, doc_analyzer)
                         ELSE get_preamble_code(sub_attack, context_level, doc_analyzer)
        setup_end == Find(preamble_code, ADD_TO_SHIPOUT)
    IN  IF Get(sub_attack, "type", "None") = "texture"
           /\ \E n \in 1..Len(sub_attacks) : Get(sub_attacks[n], "type", "None") = "watermark_tiled"
        THEN IF Contains(preamble_code, USEPACKAGE_LAYOUTS)
                /\ Contains(preamble_mods, USEPACKAGE_LAYOUTS)
             THEN IF setup_end > 0
                  THEN preamble_mods \o From(preamble_code, setup_end + 1)
                  ELSE preamble_mods
             ELSE preamble_mods \o preamble_code
        ELSE preamble_mods \o preamble_code

\* lines 554-565: what one sub-attack adds to the accumulated preamble
ComboPreambleAppend(preamble_mods, sub_attack, sub_attacks, context_level, doc_analyzer) ==
    LET preamble_code == get_preamble_code(sub_attack, context_level, doc_analyzer)
        setup_end == Find(preamble_code, ADD_TO_SHIPOUT)
    IN  IF Get(sub_attack, "type", "None") = "texture"
           /\ \E n \in 1..Len(sub_attacks) : Get(sub_attacks[n], "type", "None") = "watermark_tiled"
        THEN IF Contains(preamble_code, USEPACKAGE_LAYOUTS)
                /\ Contains(preamble_mods, USEPACKAGE_LAYOUTS)
             THEN IF setup_end > 0
                  THEN preamble_mods \o From(preamble_code, setup_end + 1)
                  ELSE preamble_mods
             ELSE preamble_mods \o preamble_code
        ELSE preamble_mods \o preamble_code

\* a wrong insertion: the placeholder replaced and the code put before the marker too
InsertPreamble_both(modified_content, preamble_mods) ==
    Replace(Replace(modified_content, WATERMARK_AREA, preamble_mods),
            BEGIN_DOCUMENT, preamble_mods \o <<"\n">> \o BEGIN_DOCUMENT)

\* lines 577-580: the preamble code put into the document
InsertPreamble(modified_content, preamble_mods) ==
    IF Contains(modified_content, WATERMARK_AREA)
    THEN Replace(modified_content, WATERMARK_AREA, preamble_mods)
    ELSE Replace(modified_content, BEGIN_DOCUMENT, preamble_mods \o <<"\n">> \o BEGIN_DOCUMENT)

\* lines 583-584: the trap question placeholder cleared
ClearTrapArea(final_content) ==
    IF Contains(final_content, TRAP_QUESTION_AREA)
    THEN Replace(final_content, TRAP_QUESTION_AREA, <<>>)
    ELSE final_content

\* what create_exam_variant returns, or that it has not returned
NotReturned == [pending |-> TRUE]
PdfPath == [path |-> "output_name.pdf"]

\* the variant .tex file on disk
NoFile == [exists |-> FALSE]
FileWith(text) == [exists |-> TRUE, text |-> text]

VARIABLES
    template_content,   \* the template read from template_path
    attack_params,      \* the attack specification
    context_level,      \* 0..3
    pc,                 \* the position in create_exam_variant
    doc_analyzer,       \* None or the DocumentAnalyzer of the template
    preamble_mods,      \* the accumulated preamble code
    modified_content,   \* the evolving document
    sub_index,          \* the position of the loop over sub_attacks, 1-based
    final_content,      \* the assembled source
    variant_tex,        \* the file output_name.tex
    returncode,         \* the exit code of the compiler, -1 before it ran
    result,             \* the value returned to the caller
    subject_hint,       \* what a call of get_subject_hint returned
    target_math,        \* what a call of get_target_math_for_attacks returned
    loop_pc,            \* the position in run_full_experiment
    attack_index,       \* the position of the loop over attacks_to_run, 1-based
    prompt_index,       \* the position of the loop over prompts_to_test, 1-based
    attempted,          \* the names of the attacks create_exam_variant was called with
    log,                \* the entries of the experiment log
    config,             \* the arguments run_experiment_v3.run_full_experiment was called with
    model_index,        \* the position of the loop over models_to_test, 1-based
    test_counter,       \* the tests begun so far
    output_tex,         \* the file at output_path of attack_configurator.apply_attack
    current_template,   \* which file the next advanced attack reads
    adv_index,          \* the position of the loop over advanced_attacks, 1-based
    apply_result        \* the value apply_attack returned

vars == <<template_content, attack_params, context_level, pc, doc_analyzer,
          preamble_mods, modified_content, sub_index, final_content,
          variant_tex, returncode, result, subject_hint, target_math,
          loop_pc, attack_index, prompt_index, attempted, log,
          config, model_index, test_counter,
          output_tex, current_template, adv_index, apply_result>>

\* the state of attack_configurator.apply_attack
configurator == <<output_tex, current_template, adv_index, apply_result>>

\* the state of run_experiment_v3.run_full_experiment beyond its loop position
v3 == <<config, model_index, test_counter>>

\* the state of run_full_experiment
experiment == <<loop_pc, attack_index, prompt_index, attempted, log, v3, configurator>>

\* no experiment is running
NoExperiment ==
    /\ loop_pc = "none"
    /\ attack_index = 0
    /\ prompt_index = 0
    /\ attempted = <<>>
    /\ log = <<>>
    /\ config = None
    /\ model_index = 0
    /\ test_counter = 0
    /\ output_tex = NoFile
    /\ current_template = "none"
    /\ adv_index = 0
    /\ apply_result = NotReturned

\* the results of the analyzer methods called on their own
analysis == <<subject_hint, target_math>>

inputs == <<template_content, attack_params, context_level>>

\* params.get('sub_attacks', [])
SubAttacks == Get(ParamsOf(attack_params), "sub_attacks", <<>>)

\* lines 534-544
Start ==
    /\ pc = "start"
    /\ doc_analyzer' = IF context_level > 0 THEN DocumentAnalyzer(template_content) ELSE None
    /\ preamble_mods' = <<>>
    /\ modified_content' = template_content
    /\ sub_index' = 1
    /\ pc' = IF TypeOf(attack_params) = "combo" THEN "combo_preamble" ELSE "single"
    /\ UNCHANGED <<experiment, inputs, analysis, final_content, variant_tex, returncode, result>>

\* lines 552-565, one iteration
ComboPreambleStep ==
    /\ pc = "combo_preamble"
    /\ sub_index <= Len(SubAttacks)
    /\ preamble_mods' = ComboPreambleAppend(preamble_mods, SubAttacks[sub_index], SubAttacks,
                                            context_level, doc_analyzer)
    /\ sub_index' = sub_index + 1
    /\ UNCHANGED <<experiment, inputs, analysis, pc, doc_analyzer, modified_content, final_content,
                   variant_tex, returncode, result>>

\* line 552, the loop exhausted
ComboPreambleDone ==
    /\ pc = "combo_preamble"
    /\ sub_index > Len(SubAttacks)
    /\ sub_index' = 1
    /\ pc' = "combo_body"
    /\ UNCHANGED <<experiment, inputs, analysis, doc_analyzer, preamble_mods, modified_content, final_content,
                   variant_tex, returncode, result>>

\* lines 568-569, one iteration; an exception leaves create_exam_variant
ComboBodyStep ==
    /\ pc = "combo_body"
    /\ sub_index <= Len(SubAttacks)
    /\ LET r == modify_body_content(modified_content, SubAttacks[sub_index],
                                    context_level, doc_analyzer)
       IN  IF r.raised
           THEN /\ pc' = "raised"
                /\ UNCHANGED <<modified_content, sub_index>>
           ELSE /\ modified_content' = r.value
                /\ sub_index' = sub_index + 1
                /\ pc' = pc
    /\ UNCHANGED <<experiment, inputs, analysis, doc_analyzer, preamble_mods, final_content,
                   variant_tex, returncode, result>>

\* line 568, the loop exhausted
ComboBodyDone ==
    /\ pc = "combo_body"
    /\ sub_index > Len(SubAttacks)
    /\ pc' = "assemble"
    /\ UNCHANGED <<experiment, inputs, analysis, doc_analyzer, preamble_mods, modified_content, sub_index,
                   final_content, variant_tex, returncode, result>>

\* lines 570-573
Single ==
    /\ pc = "single"
    /\ preamble_mods' = get_preamble_code(attack_params, context_level, doc_analyzer)
    /\ LET r == modify_body_content(modified_content, attack_params,
                                    context_level, doc_analyzer)
       IN  IF r.raised
           THEN /\ pc' = "raised"
                /\ UNCHANGED modified_content
           ELSE /\ modified_content' = r.value
                /\ pc' = "assemble"
    /\ UNCHANGED <<experiment, inputs, analysis, doc_analyzer, sub_index, final_content,
                   variant_tex, returncode, result>>

\* Assemble with the body transform of a simple attack run after the splice, over
\* the source that already holds the preamble code
Assemble_transformed ==
    /\ pc = "assemble"
    /\ LET spliced == ClearTrapArea(InsertPreamble(template_content, preamble_mods))
           r == modify_body_content(spliced, attack_params, context_level, doc_analyzer)
       IN  final_content' = IF Get(attack_params, "type", "none") = "combo" \/ r.raised
                            THEN ClearTrapArea(InsertPreamble(modified_content, preamble_mods))
                            ELSE r.value
    /\ pc' = "write"
    /\ UNCHANGED <<experiment, inputs, analysis, doc_analyzer, preamble_mods, modified_content, sub_index,
                   variant_tex, returncode, result>>

\* lines 575-584
Assemble ==
    /\ pc = "assemble"
    /\ final_content' = ClearTrapArea(InsertPreamble(modified_content, preamble_mods))
    /\ pc' = "write"
    /\ UNCHANGED <<experiment, inputs, analysis, doc_analyzer, preamble_mods, modified_content, sub_index,
                   variant_tex, returncode, result>>

\* lines 586-588
WriteVariant ==
    /\ pc = "write"
    /\ variant_tex' = FileWith(final_content)
    /\ pc' = "compile"
    /\ UNCHANGED <<experiment, inputs, analysis, doc_analyzer, preamble_mods, modified_content, sub_index,
                   final_content, returncode, result>>

\* lines 592-603: the compiler is an external program, its exit code is its own
Compile ==
    /\ pc = "compile"
    /\ \E rc \in {0, 1} :
          /\ returncode' = rc
          /\ result' = IF rc = 0 THEN PdfPath ELSE None
    /\ pc' = "done"
    /\ UNCHANGED <<experiment, inputs, analysis, doc_analyzer, preamble_mods, modified_content, sub_index,
                   final_content, variant_tex>>

-----------------------------------------------------------------------------
(* The inputs the pipeline is run on *)

\* the longest sub_attacks list of a combo
MaxSubAttacks == 2

LEVELS == 0..3

DOCUMENTCLASS == <<"\\documentclass", "{", "article", "}", "\n">>

\* what a template holds before its body
Preambles ==
    {<<>>,
     DOCUMENTCLASS,
     DOCUMENTCLASS \o WATERMARK_AREA \o <<"\n">>,
     DOCUMENTCLASS \o USEPACKAGE_LAYOUTS \o <<"\n">> \o WATERMARK_AREA \o <<"\n">>}

\* document bodies: inline math; a subject keyword and a display equation whose
\* left side is also written in the prose; a figure, graphics and a second
\* subject keyword
Bodies ==
    {<<"Solve", " ", "$", "x", "+", "y", "=", "z", "$", ".", "\n">>,
     <<"Derivative", " ", "of", " ", "e", "^", "{", "x", "^", "2", "}", ":", " ">>
         \o BeginEnv("equation")
         \o <<"e", "^", "{", "x", "^", "2", "}", "=", "y", "+", "1">>
         \o EndEnv("equation") \o <<"\n">>,
     BEGIN_FIGURE \o INCLUDEGRAPHICS \o <<"{", "plot", "}">> \o END_FIGURE
         \o <<"\n", "random", " ", "$", "a", "b", "=", "c", "$", "\n">>}

\* a template: preamble, body start marker or not, body, trap token or not
Template(pre, marker, body, trap) ==
    pre \o (IF marker THEN BEGIN_DOCUMENT \o <<"\n">> ELSE <<>>)
        \o body
        \o (IF trap THEN TRAP_QUESTION_AREA \o <<"\n">> ELSE <<>>)
        \o (IF marker THEN END_DOCUMENT \o <<"\n">> ELSE <<>>)

Templates ==
    {Template(pre, marker, body, trap) :
        pre \in Preambles, marker \in BOOLEAN, body \in Bodies, trap \in BOOLEAN}

\* the templates the combos are run on
ComboTemplates ==
    {Template(pre, TRUE, body, FALSE) : pre \in Preambles \ {<<>>}, body \in Bodies}

Attack(type, params) == [name |-> "A", type |-> type, params |-> params]

SimpleAttacks ==
    {Attack("watermark", <<>>),
     Attack("watermark", [text |-> <<"DRAFT">>, color |-> <<"gray!10">>, angle |-> 30, size |-> 6]),
     Attack("watermark_tiled", <<>>),
     Attack("watermark_tiled", [text |-> <<"f'(x)">>, color |-> <<"gray!15">>, size |-> 8,
                                angle |-> 20, x_step |-> 4, y_step |-> 3]),
     Attack("texture", <<>>),
     Attack("texture", [pattern |-> "lines", density |-> <<1, 2>>]),
     Attack("texture", [pattern |-> "wave", density |-> <<2, 1>>, color |-> <<"gray!10">>]),
     Attack("texture", [pattern |-> "circles", density |-> <<0, 1>>]),
     Attack("texture", [pattern |-> "grid", density |-> <<-1, 2>>]),
     Attack("texture", [pattern |-> "zigzag"]),
     Attack("font_swap", <<>>),
     Attack("font_swap", [symbol_to_swap |-> <<"=">>, font_name |-> <<"Arial">>]),
     Attack("background_color", <<>>),
     Attack("background_color", [mode |-> "gradient", color |-> <<"blue!2">>]),
     Attack("background_color", [mode |-> "sections"]),
     Attack("background_color", [mode |-> "stripes"]),
     Attack("kerning", [amount |-> <<-2, 25>>, target |-> <<"a", "b", "=", "c">>]),
     Attack("kerning", [target |-> <<"x", "+", "y", "=", "z">>]),
     Attack("kerning", <<>>),
     Attack("line_spacing", <<>>),
     Attack("symbol_stretch", <<>>),
     Attack("homoglyph", [target |-> <<"Solve">>]),
     Attack("low_contrast", <<>>),
     [name |-> "untyped", params |-> [text |-> <<"DRAFT">>]],
     [name |-> "bare", type |-> "ligature"]}

\* the members the combos are made of
SubAttackPool ==
    {Attack("watermark_tiled", <<>>),
     Attack("texture", <<>>),
     Attack("texture", [pattern |-> "zigzag"]),
     Attack("background_color", <<>>),
     Attack("font_swap", [symbol_to_swap |-> <<"=">>]),
     Attack("kerning", [target |-> <<"a", "b", "=", "c">>]),
     Attack("homoglyph", [target |-> <<"Solve">>])}

SeqsUpTo(S, n) == UNION {[1..m -> S] : m \in 0..n}

Combos ==
    {Attack("combo", [sub_attacks |-> subs]) : subs \in SeqsUpTo(SubAttackPool, MaxSubAttacks)}
        \cup {Attack("combo", <<>>)}

\* a combo given as a member of a combo
NestedCombo ==
    [type |-> "combo",
     params |-> [sub_attacks |-> <<Attack("font_swap", [symbol_to_swap |-> <<"=">>]),
                                   Attack("watermark_tiled", <<>>)>>]]

\* the combos with a combo among their members
NestedCombos ==
    {Attack("combo", [sub_attacks |-> subs]) :
        subs \in {<<NestedCombo>>}
                 \cup {<<a, NestedCombo>> : a \in {Attack("kerning", [target |-> <<"a", "b", "=", "c">>]),
                                                   Attack("texture", <<>>)}}
                 \cup {<<NestedCombo, a>> : a \in {Attack("kerning", [target |-> <<"a", "b", "=", "c">>]),
                                                   Attack("texture", <<>>)}}}

\* the combos in which a member finds the body changed by the member before it
EvolvingCombos ==
    {Attack("combo", [sub_attacks |-> subs]) :
        subs \in {<<Attack("kerning", <<>>), Attack("font_swap", [symbol_to_swap |-> <<"=">>])>>,
                  <<Attack("line_spacing", <<>>), Attack("font_swap", [symbol_to_swap |-> <<"=">>])>>,
                  <<Attack("font_swap", [symbol_to_swap |-> <<"=">>]), Attack("kerning", <<>>)>>}}

\* templates whose inline expressions are candidates of the kerning more than
\* once: the same expression twice, and an expression that begins with another
RepeatedMathTemplates ==
    {Template(DOCUMENTCLASS, TRUE,
              <<"Solve", " ", "$", "a", "b", "=", "c", "d", "e", "$", " ", "and", " ", "$">>
                  \o second \o <<"$", ".", "\n">>,
              FALSE) :
        second \in {<<"a", "b", "=", "c", "d", "e">>, <<"a", "b", "=", "c", "d", "e", "f">>}}

\* templates with an insertion point written twice: the placeholder named in a
\* comment before the placeholder itself, and \begin{document} quoted in the body
RepeatedPointTemplates ==
    {Template(DOCUMENTCLASS \o <<"%", " ", "code", " ", "at", " ">> \o WATERMARK_AREA
                  \o <<"\n">> \o WATERMARK_AREA \o <<"\n">>,
              TRUE, <<"Solve", " ", "$", "x", "+", "y", "=", "z", "$", ".", "\n">>, FALSE),
     Template(DOCUMENTCLASS, TRUE,
              <<"Write", " ">> \o BEGIN_DOCUMENT \o <<" ", "first", ".", "\n">>, FALSE)}

Init ==
    /\ \E run \in (Templates \X SimpleAttacks)
                     \cup (RepeatedPointTemplates
                               \X {Attack("watermark", <<>>),
                                   Attack("font_swap", [symbol_to_swap |-> <<"=">>])})
                     \cup (RepeatedMathTemplates \X {Attack("kerning", <<>>)})
                     \cup (ComboTemplates \X (Combos \cup NestedCombos \cup EvolvingCombos)) :
          /\ template_content = run[1]
          /\ attack_params = run[2]
    /\ context_level \in LEVELS
    /\ pc = "start"
    /\ doc_analyzer = None
    /\ preamble_mods = <<>>
    /\ modified_content = <<>>
    /\ sub_index = 1
    /\ final_content = <<>>
    /\ variant_tex = NoFile
    /\ returncode = -1
    /\ result = NotReturned
    /\ subject_hint = NotReturned
    /\ target_math = NotReturned
    /\ NoExperiment

Next ==
    \/ Start
    \/ ComboPreambleStep
    \/ ComboPreambleDone
    \/ ComboBodyStep
    \/ ComboBodyDone
    \/ Single
    \/ Assemble
    \/ WriteVariant
    \/ Compile

Spec == Init /\ [][Next]_vars

-----------------------------------------------------------------------------
(* The analyzer's methods called on their own *)

\* the most snippets a document is put together from
MaxSnippets == 2

Snippets ==
    {<<"text", " ">>,
     <<"Calculus", " ">>,
     <<"derivative", " ">>,
     <<"$">> \o FRAC_D_DX \o <<"$", " ">>,
     <<"probability", " ">>,
     <<"Random", " ">>,
     <<"linear", " ", "algebra", " ">>,
     BeginEnv("matrix") \o <<"a", "&", "b">> \o EndEnv("matrix"),
     <<"complex", " ">>,
     <<"analysis", " ">>,
     <<"variable", " ">>,
     <<"discrete", " ">>,
     INCLUDEGRAPHICS \o <<"{", "plot", "}">>,
     <<"machine", " ", "learning", " ">>,
     <<"Neural", " ">>,
     BeginEnv("equation")
         \o <<"a", "b", "c", "d", "e", "f", " ", "x", "+", "y", "+", "z", "1",
              "\\", "\\", "(", "q", "+", "r", ")", "*", "s", "t", "2">>
         \o EndEnv("equation"),
     BeginEnv("align")
         \o <<"\\", "l", "a", "b", "e", "l", "{", "e", "q", "}", " ",
              "\\", "f", "r", "a", "c", "{", "a", "}", "{", "b", "}", "+", "1", "&", "x", "=", "y">>
         \o EndEnv("align"),
     <<"$", "a", "b", "c", "+", "d", "e", "f", "$", " ">>,
     <<"\\", "(", "x", "\\", ")", " ">>}

RECURSIVE Flatten(_)
Flatten(ss) == IF ss = <<>> THEN <<>> ELSE Head(ss) \o Flatten(Tail(ss))

Documents == {Flatten(ss) : ss \in SeqsUpTo(Snippets, MaxSnippets)}

AnalyzerInit ==
    /\ template_content \in Documents
    /\ attack_params = Attack("none", <<>>)
    /\ context_level = 0
    /\ pc = "construct"
    /\ doc_analyzer = None
    /\ preamble_mods = <<>>
    /\ modified_content = <<>>
    /\ sub_index = 1
    /\ final_content = <<>>
    /\ variant_tex = NoFile
    /\ returncode = -1
    /\ result = NotReturned
    /\ subject_hint = NotReturned
    /\ target_math = NotReturned
    /\ NoExperiment

\* DocumentAnalyzer(tex_content)
Construct ==
    /\ pc = "construct"
    /\ doc_analyzer' = DocumentAnalyzer(template_content)
    /\ pc' = "analyzed"
    /\ UNCHANGED <<experiment, inputs, analysis, preamble_mods, modified_content, sub_index,
                   final_content, variant_tex, returncode, result>>

\* doc_analyzer.get_subject_hint()
CallSubjectHint ==
    /\ pc = "analyzed"
    /\ subject_hint' = Returned(get_subject_hint(doc_analyzer))
    /\ UNCHANGED <<experiment, inputs, target_math, pc, doc_analyzer, preamble_mods, modified_content,
                   sub_index, final_content, variant_tex, returncode, result>>

\* doc_analyzer.get_target_math_for_attacks()
CallTargetMath ==
    /\ pc = "analyzed"
    /\ target_math' = Returned(get_target_math_for_attacks(doc_analyzer))
    /\ UNCHANGED <<experiment, inputs, subject_hint, pc, doc_analyzer, preamble_mods, modified_content,
                   sub_index, final_content, variant_tex, returncode, result>>

AnalyzerNext ==
    \/ Construct
    \/ CallSubjectHint
    \/ CallTargetMath

SpecAnalyzer == AnalyzerInit /\ [][AnalyzerNext]_vars

-----------------------------------------------------------------------------
(* Properties *)

\* the attack-type tags that get_preamble_code or modify_body_content act on
CATALOG == {"watermark", "watermark_tiled", "texture", "font_swap", "background_color",
            "kerning", "line_spacing", "symbol_stretch"}

\* the type tag an attack spec carries, if it carries one
Tag(attack) == IF "type" \in DOMAIN attack THEN attack.type ELSE "(no tag)"

\* a Simple attack whose type tag is not in the catalog
UnknownSimple(attack) == Tag(attack) \notin CATALOG \cup {"combo"}

\* create_exam_variant has assembled its source
Assembled == pc \in {"write", "compile", "done"}

\* C1 as the spec states it: at context level 0 a Simple attack of unknown tag
\* yields the template with the preamble placeholder replaced by the empty
\* string and nothing else changed (so a template without the placeholder is
\* returned character for character).
C1_UnknownTagOnlyClearsPlaceholder ==
    (Assembled /\ context_level = 0 /\ UnknownSimple(attack_params))
        => final_content = Replace(template_content, WATERMARK_AREA, <<>>)

\* C1 amended: at context level 0 a Simple attack of unknown tag yields the
\* template changed in these places only: the trap-question placeholder is
\* removed, and the preamble placeholder, if present, is replaced by the empty
\* string; if it is absent a line break is put before every \begin{document}.
\* A template with neither token nor marker is returned character for character.
C1_UnknownTagAmended ==
    (Assembled /\ context_level = 0 /\ UnknownSimple(attack_params))
        => LET T == template_content
               marked == IF Count(T, WATERMARK_AREA) > 0
                         THEN Replace(T, WATERMARK_AREA, <<>>)
                         ELSE Replace(T, BEGIN_DOCUMENT, <<"\n">> \o BEGIN_DOCUMENT)
           IN  /\ final_content = Replace(marked, TRAP_QUESTION_AREA, <<>>)
               /\ (Count(T, WATERMARK_AREA) + Count(T, BEGIN_DOCUMENT)
                       + Count(T, TRAP_QUESTION_AREA) = 0 => final_content = T)

\* C1 witness: an unknown tag at level 0 on a template that holds the placeholder,
\* the assembled source being the template without it
C1_Witness ==
    /\ pc = "done"
    /\ context_level = 0
    /\ UnknownSimple(attack_params)
    /\ Count(template_content, WATERMARK_AREA) = 1
    /\ Count(template_content, TRAP_QUESTION_AREA) = 0
    /\ final_content = Replace(template_content, WATERMARK_AREA, <<>>)

\* an attack spec whose type tag the generators do not know
UnknownTag(attack) == Tag(attack) \notin CATALOG

\* C2: for an attack of unknown tag, at every context level 0..3 and with or
\* without an analyzer, get_preamble_code returns the empty string and
\* modify_body_content returns its input unchanged, raising nothing; as a member
\* of a composite it changes neither the accumulated preamble nor the evolving body.
C2_UnknownTagIsNoOp ==
    /\ [](pc = "start" =>
            LET built == DocumentAnalyzer(template_content)
            IN  \A attack \in {attack_params} \cup {SubAttacks[n] : n \in 1..Len(SubAttacks)} :
                   (UnknownTag(attack) /\ (Tag(attack) /= "combo" \/ attack /= attack_params))
                       => \A level \in LEVELS : \A analyzer \in {None, built} :
                             /\ get_preamble_code(attack, level, analyzer) = <<>>
                             /\ modify_body_content(template_content, attack, level, analyzer)
                                    = [raised |-> FALSE, value |-> template_content])
    /\ [][/\ (pc = "single" /\ UnknownTag(attack_params))
                => (preamble_mods' = <<>> /\ modified_content' = modified_content
                      /\ pc' /= "raised")
          /\ (pc = "combo_preamble" /\ sub_index <= Len(SubAttacks)
                 /\ UnknownTag(SubAttacks[sub_index]))
                => preamble_mods' = preamble_mods
          /\ (pc = "combo_body" /\ sub_index <= Len(SubAttacks)
                 /\ UnknownTag(SubAttacks[sub_index]))
                => (modified_content' = modified_content /\ pc' /= "raised")]_vars

\* C2 witness: an unknown member of a composite has been passed in both loops,
\* next to a member that did contribute
C2_Witness ==
    /\ pc = "combo_body"
    /\ context_level = 3
    /\ sub_index = 3
    /\ UnknownTag(SubAttacks[2])
    /\ ~UnknownTag(SubAttacks[1])
    /\ preamble_mods = get_preamble_code(SubAttacks[1], context_level, doc_analyzer)
    /\ preamble_mods /= <<>>

\* create_exam_variant has just assembled its source; no later step changes the
\* accumulated preamble, the body or the assembled source
JustAssembled == pc = "write"

\* a Composite attack is being composed or has been
Composite == Tag(attack_params) = "combo"

\* the part of a texture's preamble code that the duplicate-setup rule keeps: the
\* code from the pattern-drawing marker on, nothing when the marker is not in it
KeptPart(code) ==
    IF Find(code, ADD_TO_SHIPOUT) > 0 THEN From(code, Find(code, ADD_TO_SHIPOUT) + 1) ELSE <<>>

\* the contributions of the first k members of subs, concatenated in list order:
\* each member contributes its preamble code, a texture beside a watermark_tiled
\* only the kept part of it once the layouts package is in both
RECURSIVE AccumulatedOver(_, _)
AccumulatedOver(subs, k) ==
    IF k = 0 THEN <<>>
    ELSE LET before == AccumulatedOver(subs, k - 1)
             code == get_preamble_code(subs[k], context_level, doc_analyzer)
             deduplicated == /\ Tag(subs[k]) = "texture"
                             /\ \E n \in 1..Len(subs) : Tag(subs[n]) = "watermark_tiled"
                             /\ Contains(code, USEPACKAGE_LAYOUTS)
                             /\ Contains(before, USEPACKAGE_LAYOUTS)
         IN  before \o (IF deduplicated THEN KeptPart(code) ELSE code)

\* modify_body_content applied with subs[1], then subs[2], ..., then subs[k]
RECURSIVE FoldedOver(_, _)
FoldedOver(subs, k) ==
    IF k = 0 THEN Returned(template_content)
    ELSE LET before == FoldedOver(subs, k - 1)
         IN  IF before.raised THEN before
             ELSE modify_body_content(before.value, subs[k], context_level, doc_analyzer)

\* the assembled source of the composite whose members are subs
OutputOf(subs) ==
    ClearTrapArea(InsertPreamble(FoldedOver(subs, Len(subs)).value,
                                 AccumulatedOver(subs, Len(subs))))

Reversed(subs) == [n \in 1..Len(subs) |-> subs[Len(subs) + 1 - n]]

\* C3: for a Composite attack with sub_attacks [a1..an] the accumulated preamble
\* is the contributions of a1..an concatenated in list order, after every
\* iteration of the first loop and at its end, and the body is modify_body_content
\* applied with a1, then a2, ..., then an to the evolving content, after every
\* iteration of the second loop and at its end; the source just assembled is
\* made of these two.
C3_CompositeInListOrder ==
    Composite =>
        /\ pc = "combo_preamble" =>
              /\ preamble_mods = AccumulatedOver(SubAttacks, sub_index - 1)
              /\ modified_content = template_content
        /\ pc = "combo_body" =>
              modified_content = FoldedOver(SubAttacks, sub_index - 1).value
        /\ JustAssembled =>
              /\ preamble_mods = AccumulatedOver(SubAttacks, Len(SubAttacks))
              /\ modified_content = FoldedOver(SubAttacks, Len(SubAttacks)).value
              /\ final_content = OutputOf(SubAttacks)

\* C3 witness: a composite of two members has been assembled, both members changed
\* the body, and the same members in the other order give another body and
\* another assembled source
C3_Witness ==
    /\ Composite
    /\ pc = "done"
    /\ Len(SubAttacks) = 2
    /\ FoldedOver(SubAttacks, 1).value /= template_content
    /\ modified_content /= FoldedOver(SubAttacks, 1).value
    /\ FoldedOver(Reversed(SubAttacks), 2).value /= modified_content
    /\ OutputOf(Reversed(SubAttacks)) /= final_content

\* the members of the composite whose own preamble code carries the dimension setup
SetupMembers ==
    {n \in 1..Len(SubAttacks) :
        /\ Tag(SubAttacks[n]) \in NEEDS_DIMENSIONS
        /\ Contains(get_preamble_code(SubAttacks[n], context_level, doc_analyzer),
                    dimension_setup)}

\* C4 as the spec states it: for a Composite attack in which more than one member
\* needs the dimension setup block, in any member order, the accumulated preamble
\* holds the block exactly once.
C4_DimensionSetupOnce ==
    (Composite /\ pc = "combo_body" /\ Cardinality(SetupMembers) > 1)
        => Count(preamble_mods, dimension_setup) = 1

\* the next sub-attack of the first loop is a texture whose code lacks the
\* pattern-drawing marker, met after a watermark_tiled that contributed the
\* dimension setup
TextureWithoutMarkerNext ==
    /\ pc = "combo_preamble"
    /\ sub_index <= Len(SubAttacks)
    /\ Tag(SubAttacks[sub_index]) = "texture"
    /\ \E n \in 1..(sub_index - 1) : Tag(SubAttacks[n]) = "watermark_tiled"
    /\ Contains(preamble_mods, dimension_setup)
    /\ get_preamble_code(SubAttacks[sub_index], context_level, doc_analyzer) /= <<>>
    /\ ~Contains(get_preamble_code(SubAttacks[sub_index], context_level, doc_analyzer),
                 ADD_TO_SHIPOUT)

\* C5 as the spec states it: a texture whose preamble lacks the pattern-drawing
\* marker, following a watermark_tiled that contributed the dimension setup, has
\* its contribution appended to the accumulated preamble unmodified.
C5_ContributionKeptUnmodified ==
    [][TextureWithoutMarkerNext =>
          preamble_mods' = preamble_mods
              \o get_preamble_code(SubAttacks[sub_index], context_level, doc_analyzer)]_vars

\* C5 amended: a texture whose preamble lacks the pattern-drawing marker, following
\* a watermark_tiled that contributed the dimension setup, contributes nothing:
\* the accumulated preamble is left as it was, and the loop goes on to the next
\* sub-attack.
C5_ContributionDropped ==
    [][TextureWithoutMarkerNext =>
          (preamble_mods' = preamble_mods /\ sub_index' = sub_index + 1
              /\ pc' = "combo_preamble")]_vars

\* C5 witness: the loop is past such a texture, the accumulated preamble being the
\* code of the watermark_tiled before it and nothing more
C5_Witness ==
    /\ pc = "combo_preamble"
    /\ sub_index = 3
    /\ Tag(SubAttacks[1]) = "watermark_tiled"
    /\ Tag(SubAttacks[2]) = "texture"
    /\ get_preamble_code(SubAttacks[2], context_level, doc_analyzer) /= <<>>
    /\ ~Contains(get_preamble_code(SubAttacks[2], context_level, doc_analyzer),
                 ADD_TO_SHIPOUT)
    /\ Contains(preamble_mods, dimension_setup)
    /\ preamble_mods = get_preamble_code(SubAttacks[1], context_level, doc_analyzer)

\* the pieces of s between the occurrences of sep, from position i on
RECURSIVE PiecesFrom(_, _, _)
PiecesFrom(s, sep, i) ==
    LET j == IndexFrom(s, sep, i)
    IN  IF j = 0 THEN <<From(s, i)>>
        ELSE <<SubSeq(s, i, j - 1)>> \o PiecesFrom(s, sep, j + Len(sep))

\* the pieces put together again with by between them
RECURSIVE Joined(_, _)
Joined(pieces, by) ==
    IF Len(pieces) = 1 THEN pieces[1]
    ELSE pieces[1] \o by \o Joined(Tail(pieces), by)

\* C6: if the placeholder %%WATERMARK_AREA%% is present in the document, the
\* generated preamble code stands in the place of each placeholder and nothing is
\* inserted at \begin{document}; if the placeholder is absent, the generated
\* preamble code, ended by a line break, stands immediately before each
\* \begin{document} marker.  The rest of the document is as it was, the trap
\* placeholder apart, which is removed.
C6_PlaceholderElseBeforeMarker ==
    JustAssembled =>
        LET spliced ==
                IF Count(modified_content, WATERMARK_AREA) > 0
                THEN Joined(PiecesFrom(modified_content, WATERMARK_AREA, 1), preamble_mods)
                ELSE Joined(PiecesFrom(modified_content, BEGIN_DOCUMENT, 1),
                            preamble_mods \o <<"\n">> \o BEGIN_DOCUMENT)
        IN  /\ final_content = Joined(PiecesFrom(spliced, TRAP_QUESTION_AREA, 1), <<>>)
            /\ Count(modified_content, WATERMARK_AREA) > 0
                  => /\ Count(final_content, BEGIN_DOCUMENT)
                            = Count(modified_content, BEGIN_DOCUMENT)
                     /\ Count(final_content, <<"\n">> \o BEGIN_DOCUMENT)
                            = Count(modified_content, <<"\n">> \o BEGIN_DOCUMENT)
            /\ Count(final_content, WATERMARK_AREA) = 0

\* C6 witness: a document without the placeholder has been assembled, its
\* generated preamble code standing before the \begin{document} marker
C6_Witness ==
    /\ pc = "done"
    /\ preamble_mods /= <<>>
    /\ Count(modified_content, WATERMARK_AREA) = 0
    /\ Count(modified_content, BEGIN_DOCUMENT) = 1
    /\ ~Contains(modified_content, preamble_mods)
    /\ Contains(final_content, preamble_mods \o <<"\n">> \o BEGIN_DOCUMENT)

\* the template holds neither the preamble placeholder nor the body start marker
NoInsertionPoint ==
    /\ ~Contains(template_content, WATERMARK_AREA)
    /\ ~Contains(template_content, BEGIN_DOCUMENT)

\* C7 as the spec states it: when the template holds neither the placeholder nor
\* \begin{document}, create_exam_variant writes no source, runs no compiler and
\* returns None; in every other case composition raises nothing.
C7_NoInsertionPointReturnsNone ==
    /\ NoInsertionPoint =>
          /\ variant_tex = NoFile
          /\ returncode = -1
          /\ result \in {NotReturned, None}
    /\ ~NoInsertionPoint => pc /= "raised"

\* a single texture attack of a pattern the generator draws has produced its code
TextureGenerated ==
    /\ Tag(attack_params) = "texture"
    /\ pc \in {"assemble", "write", "compile", "done"}
    /\ Contains(preamble_mods, ADD_TO_SHIPOUT)

\* the density the attack was given, 0.7 when it names none
GivenDensity == Get(Get(attack_params, "params", <<>>), "density", <<7, 10>>)

\* the document was analyzed and holds figures
FiguresSeen == context_level >= 1 /\ doc_analyzer /= None /\ doc_analyzer.has_figures

\* the density in effect: reduced to 0.8 of the given one for a document with figures
EffectiveDensity == IF FiguresSeen THEN RatMul(GivenDensity, <<4, 5>>) ELSE GivenDensity

\* 2.0/d for d > 0, and 2.0 otherwise
TwoOver(d) == IF d[1] > 0 /\ d[2] > 0 THEN Rat(2 * d[2], d[1]) ELSE <<2, 1>>

\* the generated pattern code uses the step s: the code of every pattern holds the
\* step as it is, that of the circles pattern holds its double
UsesStep(s) ==
    \/ Contains(preamble_mods, <<FmtFloat(s)>>)
    \/ /\ Contains(preamble_mods, <<", thin] (10,14) circle (\\i*">>)
       /\ Contains(preamble_mods, <<FmtFloat(RatMul(s, <<2, 1>>))>>)

\* C8 as the spec states it: for every texture attack with density d > 0 the step
\* used in the generated pattern code is 2.0/d, for d <= 0 it is 2.0; the step is
\* never negative, zero or the result of a division by zero.
C8_StepIsTwoOverDensity ==
    TextureGenerated =>
        /\ UsesStep(TwoOver(GivenDensity))
        /\ TwoOver(GivenDensity)[1] > 0
        /\ TwoOver(GivenDensity)[2] > 0

\* C8 amended: the step used in the generated pattern code is 2.0/e for e > 0 and
\* 2.0 for e <= 0, where e is the density in effect: the given density d, or
\* 0.8*d when the context level is at least 1 and the analyzed document holds
\* figures; the step is never negative, zero or the result of a division by zero.
C8_StepIsTwoOverEffectiveDensity ==
    TextureGenerated =>
        /\ UsesStep(TwoOver(EffectiveDensity))
        /\ TwoOver(EffectiveDensity)[1] > 0
        /\ TwoOver(EffectiveDensity)[2] > 0
        /\ EffectiveDensity[1] > 0
              => TwoOver(EffectiveDensity)[1] * EffectiveDensity[1]
                     = 2 * TwoOver(EffectiveDensity)[2] * EffectiveDensity[2]
        /\ EffectiveDensity[1] <= 0 => UsesStep(<<2, 1>>)

\* C8 witness: a texture of positive density generated for a document with
\* figures, its step being 2.0 over the reduced density and not over the given one
C8_Witness ==
    /\ TextureGenerated
    /\ pc = "done"
    /\ FiguresSeen
    /\ GivenDensity[1] > 0
    /\ UsesStep(TwoOver(EffectiveDensity))
    /\ ~UsesStep(TwoOver(GivenDensity))

\* the categories in the order get_subject_hint looks for them
CATEGORIES == <<"calculus", "probability", "linear_algebra", "complex_analysis",
                "discrete_math", "machine_learning">>

\* the keyword indicator of a category occurs in the lowercased source
Indicated(category) ==
    LET source == ToLower(template_content)
        occurs(keyword) == Count(source, keyword) > 0
    IN  CASE category = "calculus" ->
               occurs(<<"calculus">>) \/ occurs(<<"derivative">>)
                   \/ occurs(<<"\\", "f", "r", "a", "c", "{", "d", "}", "{", "d", "x", "}">>)
          [] category = "probability" -> occurs(<<"probability">>) \/ occurs(<<"random">>)
          [] category = "linear_algebra" ->
               occurs(<<"linear", " ", "algebra">>)
                   \/ occurs(<<"\\begin", "{", "matrix", "}">>)
          [] category = "complex_analysis" ->
               occurs(<<"complex">>) /\ (occurs(<<"analysis">>) \/ occurs(<<"variable">>))
          [] category = "discrete_math" -> occurs(<<"discrete">>) \/ occurs(<<"graph">>)
          [] category = "machine_learning" ->
               occurs(<<"machine", " ", "learning">>) \/ occurs(<<"neural">>)

\* C9: get_subject_hint returns the first category, in the order calculus,
\* probability, linear_algebra, complex_analysis, discrete_math, machine_learning,
\* whose keyword indicator occurs in the lowercased source, and general_math when
\* none occurs; a source with a calculus keyword and a probability keyword gives
\* calculus; whenever it has returned, the hint is this function of the source.
C9_FirstMatchWins ==
    subject_hint /= NotReturned =>
        /\ ~subject_hint.raised
        /\ \A n \in 1..Len(CATEGORIES) :
              (Indicated(CATEGORIES[n]) /\ \A m \in 1..(n - 1) : ~Indicated(CATEGORIES[m]))
                  => subject_hint.value = CATEGORIES[n]
        /\ (\A n \in 1..Len(CATEGORIES) : ~Indicated(CATEGORIES[n]))
              => subject_hint.value = "general_math"
        /\ (Indicated("calculus") /\ Indicated("probability"))
              => subject_hint.value = "calculus"

\* C9 witness: a source with a probability keyword before a calculus keyword has
\* been classified as calculus
C9_Witness ==
    /\ subject_hint = [raised |-> FALSE, value |-> "calculus"]
    /\ Indicated("probability")
    /\ Head(ToLower(template_content)) \in {"probability", "random"}

\* C10 as the spec states it: get_target_math_for_attacks returns at most 5
\* candidates, and no returned candidate starts with a backslash, whether it came
\* from a math environment body or from the inline-math fallback.
C10_AtMostFiveNoCommand ==
    target_math /= NotReturned =>
        /\ ~target_math.raised
        /\ Len(target_math.value) <= 5
        /\ \A n \in 1..Len(target_math.value) : Head(target_math.value[n]) /= "\\"

\* lines 538-540: the analyzer the generators are handed at a level, built being
\* the DocumentAnalyzer of the template
AnalyzerAt(level, built) == IF level > 0 THEN built ELSE None

\* the preamble code and the body the attack gets at a level
PreambleAt(level, built) ==
    get_preamble_code(attack_params, level, AnalyzerAt(level, built))
BodyAt(level, built) ==
    modify_body_content(template_content, attack_params, level, AnalyzerAt(level, built))

\* the parameters the attack spec carries
GivenParams == Get(attack_params, "params", <<>>)

\* the pattern code uses the step s (the circles pattern its double)
CodeUsesStep(code, s) ==
    \/ Contains(code, <<FmtFloat(s)>>)
    \/ /\ Contains(code, <<", thin] (10,14) circle (\\i*">>)
       /\ Contains(code, <<FmtFloat(RatMul(s, <<2, 1>>))>>)

\* the adaptations below level 3, each with the level its gate names
ADAPTATIONS == {"tiled_steps", "texture_density", "texture_color", "line_spacing_figures",
                "watermark_color", "setup_suppressed", "kerning_auto", "font_swap_symbol"}

\* the effect of an adaptation is seen in what the attack gets at a level
Applied(adaptation, level, built) ==
    LET code == PreambleAt(level, built)
        plain == PreambleAt(0, built)
        body == BodyAt(level, built)
        density == Get(GivenParams, "density", <<7, 10>>)
    IN  CASE adaptation = "tiled_steps" ->
               /\ Tag(attack_params) = "watermark_tiled"
               /\ Contains(code, <<FmtInt(2 + Get(GivenParams, "x_step", 5)),
                                   ",...,20} {\n      \\foreach \\y in {1,",
                                   FmtInt(2 + Get(GivenParams, "y_step", 4))>>)
          [] adaptation = "texture_density" ->
               /\ Tag(attack_params) = "texture"
               /\ density[1] > 0
               /\ CodeUsesStep(code, TwoOver(RatMul(density, <<4, 5>>)))
               /\ ~CodeUsesStep(code, TwoOver(density))
          [] adaptation = "texture_color" ->
               /\ Tag(attack_params) = "texture"
               /\ Contains(code, <<"gray!8">>) /\ ~Contains(plain, <<"gray!8">>)
          [] adaptation = "line_spacing_figures" ->
               /\ Tag(attack_params) = "line_spacing"
               /\ ~body.raised
               /\ Count(body.value, <<"\\linespread{">>) > 1
               /\ Count(body.value, <<"\\linespread{">>)
                      = 1 + Count(template_content, BEGIN_FIGURE)
          [] adaptation = "watermark_color" ->
               /\ Tag(attack_params) = "watermark"
               /\ Contains(code, <<"gray!8">>) /\ ~Contains(plain, <<"gray!8">>)
          [] adaptation = "setup_suppressed" ->
               /\ Tag(attack_params) \in NEEDS_DIMENSIONS
               /\ ~Contains(code, dimension_setup)
          [] adaptation = "kerning_auto" ->
               /\ Tag(attack_params) = "kerning"
               /\ "target" \notin DOMAIN GivenParams
               /\ ~body.raised
               /\ body.value /= template_content
          [] adaptation = "font_swap_symbol" ->
               /\ Tag(attack_params) = "font_swap"
               /\ "symbol_to_swap" \notin DOMAIN GivenParams
               /\ code /= plain

\* C11: for a fixed attack spec and document, every adaptation applied at a
\* context level j is applied at every level k > j: the tiling steps raised and
\* the texture density reduced and its colour lightened for a document with
\* figures, the figure spans passed over by line_spacing, the watermark colour
\* lightened, the dimension setup left out for a document that loads layouts,
\* the kerning targets chosen and the font_swap symbol adapted to the subject.
C11_LevelsMonotone ==
    pc = "start" =>
        LET built == DocumentAnalyzer(template_content)
        IN  \A adaptation \in ADAPTATIONS : \A j \in LEVELS : \A k \in LEVELS :
               (j < k /\ Applied(adaptation, j, built)) => Applied(adaptation, k, built)

\* C11 witness: at level 3 a watermark_tiled attack on a document with figures
\* has been generated with its steps 4 and 3 raised by the figure adjustment of
\* level 1
C11_Witness ==
    /\ pc = "done"
    /\ context_level = 3
    /\ Tag(attack_params) = "watermark_tiled"
    /\ doc_analyzer /= None
    /\ doc_analyzer.has_figures
    /\ Get(GivenParams, "x_step", 5) = 4
    /\ Get(GivenParams, "y_step", 4) = 3
    /\ Contains(preamble_mods, <<"6", ",...,20} {\n      \\foreach \\y in {1,", "5">>)
    /\ Applied("tiled_steps", 1, doc_analyzer)
    /\ Applied("tiled_steps", 3, doc_analyzer)

\* C12 as the spec states it: for a kerning attack with explicit target t and
\* amount a at context level 0, every verbatim occurrence of $t$ in the template
\* is replaced by $t\mkern<a>em$, also for a target with regex-special
\* characters; when $t$ does not occur the body is returned unchanged.
C12_KerningReplacesVerbatim ==
    (pc = "assemble" /\ context_level = 0 /\ Tag(attack_params) = "kerning"
        /\ "target" \in DOMAIN GivenParams)
        => LET t == GivenParams.target
               a == Get(GivenParams, "amount", <<-1, 20>>)
               verbatim == <<"$">> \o t \o <<"$">>
               kerned == <<"$">> \o t \o <<"\\mkern", FmtFloat(a), "em", "$">>
           IN  /\ modified_content = Joined(PiecesFrom(template_content, verbatim, 1), kerned)
               /\ Count(template_content, verbatim) = 0
                     => modified_content = template_content

\* a single watermark_tiled attack has produced its code
TilingGenerated ==
    /\ Tag(attack_params) = "watermark_tiled"
    /\ pc \in {"assemble", "write", "compile", "done"}

\* the tiling code loops over {1,p,...,20} for x and {1,q,...,28} for y
TilingLoops(code, p, q) ==
    Contains(code, <<"{%\n  \\begin{tikzpicture}[remember picture, overlay]\n    % Fixed loop to use fixed steps instead of calculated dimensions\n    \\foreach \\x in {1,",
                     FmtInt(p), ",...,20} {\n      \\foreach \\y in {1,",
                     FmtInt(q), ",...,28} {\n        \\node[rotate=">>)

\* C13 as the spec states it: for every watermark_tiled attack with x_step = a
\* and y_step = b the generated tiling code loops over {1,a+1,...,20} for x and
\* {1,b+1,...,28} for y.
C13_LoopTermsAreStepPlusOne ==
    TilingGenerated =>
        TilingLoops(preamble_mods, Get(GivenParams, "x_step", 5) + 1,
                                   Get(GivenParams, "y_step", 4) + 1)

\* C13 amended: the generated tiling code loops over {1,a'+1,...,20} for x and
\* {1,b'+1,...,28} for y, where a' and b' are the steps in effect: the given
\* x_step = a and y_step = b (5 and 4 when not given), each raised by 1 when the
\* context level is at least 1 and the analyzed document holds figures.
C13_LoopTermsAreEffectiveStepPlusOne ==
    TilingGenerated =>
        LET raise == IF FiguresSeen THEN 1 ELSE 0
        IN  /\ TilingLoops(preamble_mods, Get(GivenParams, "x_step", 5) + raise + 1,
                                          Get(GivenParams, "y_step", 4) + raise + 1)
            /\ Count(preamble_mods, <<",...,20} {\n      \\foreach \\y in {1,">>) = 1

\* C13 witness: x_step = 4 and y_step = 3 generated at level 0 as {1,5,...,20} and
\* {1,4,...,28}
C13_Witness ==
    /\ TilingGenerated
    /\ pc = "done"
    /\ context_level = 0
    /\ Get(GivenParams, "x_step", 5) = 4
    /\ Get(GivenParams, "y_step", 4) = 3
    /\ TilingLoops(preamble_mods, 5, 4)

\* the analyzers of all the templates: every combination of derived facts
\* (figures, subject hint, packages loaded, candidate targets) a document can show
ANALYZERS == {DocumentAnalyzer(T) : T \in Templates}

\* C14: at context level 0 no DocumentAnalyzer is built, and the preamble code
\* and the body a Simple attack gets are those the generators give whatever
\* facts an analyzer holds, those of any other template included: no derived
\* document fact has a part in either.
C14_LevelZeroIgnoresFacts ==
    context_level = 0 =>
        /\ doc_analyzer = None
        /\ (pc = "assemble" /\ ~Composite) =>
              \A analyzer \in ANALYZERS \cup {None} :
                 /\ preamble_mods = get_preamble_code(attack_params, 0, analyzer)
                 /\ modify_body_content(template_content, attack_params, 0, analyzer)
                        = [raised |-> FALSE, value |-> modified_content]

\* C14 witness: at level 0 a watermark_tiled attack without text and steps, on a
\* document with a figure, a subject keyword and the layouts package, has been
\* generated with the dimension setup, the fixed text and the steps 5 and 4
C14_Witness ==
    /\ pc = "done"
    /\ context_level = 0
    /\ doc_analyzer = None
    /\ attack_params = Attack("watermark_tiled", <<>>)
    /\ Contains(template_content, BEGIN_FIGURE)
    /\ Contains(template_content, USEPACKAGE_LAYOUTS)
    /\ get_subject_hint(DocumentAnalyzer(template_content)) /= "general_math"
    /\ Contains(preamble_mods, dimension_setup)
    /\ Contains(preamble_mods, <<"}\\selectfont $", "WATERMARK">>)
    /\ TilingLoops(preamble_mods, 6, 5)

\* a Simple attack has produced its preamble code and its body
SimpleGenerated == ~Composite /\ pc = "assemble"

\* the literal text by which the drawing code of each texture pattern is known
PatternMark(pattern) ==
    CASE pattern = "dots" -> ",...,28} {\n        \\node[circle, fill="
      [] pattern = "lines" -> ",...,20} {\\draw["
      [] pattern = "wave" -> "    \\foreach \\i in {0,1,...,20} {\n      \\draw["
      [] pattern = "circles" -> "    \\foreach \\i in {1,2,...,10} {\n      \\draw["
      [] pattern = "grid" -> "cm] (0,0) grid (20,28);\n"
      [] OTHER -> "(no drawing code)"

PATTERNS == {"dots", "lines", "wave", "circles", "grid"}

\* the code draws this texture pattern and no other
DrawsPattern(code, pattern) ==
    \A other \in PATTERNS : Contains(code, <<PatternMark(other)>>) <=> other = pattern

\* the code tiles the page with this text
TilesText(code, text) ==
    Contains(code, <<"}\\selectfont $">> \o text \o <<"$};\n      }\n    }\n  \\end{tikzpicture}%\n}\n">>)

\* the code defines the swap command of this symbol
DefinesSwap(code, symbol) ==
    LET alnum == SelectSeq(symbol, LAMBDA c : c \in LOWER \cup UPPER \cup DIGIT)
    IN  Contains(code, <<"}[Scale=1.0]\n\\newcommand{", "\\weird">>
                        \o (IF alnum = <<>> THEN <<"weirdsymbol">> ELSE alnum)
                        \o <<"}{{\\weirdfont ">> \o symbol \o <<"}}\n">>)

\* C15: at every context level a parameter the caller supplied is used as it is,
\* whatever the subject hint of the document: the text of watermark_tiled, the
\* pattern of texture, the symbol_to_swap of font_swap.
C15_SuppliedParameterKept ==
    SimpleGenerated =>
        /\ (Tag(attack_params) = "watermark_tiled" /\ "text" \in DOMAIN GivenParams)
              => TilesText(preamble_mods, GivenParams.text)
        /\ (Tag(attack_params) = "texture" /\ "pattern" \in DOMAIN GivenParams)
              => DrawsPattern(preamble_mods, GivenParams.pattern)
        /\ (Tag(attack_params) = "font_swap" /\ "symbol_to_swap" \in DOMAIN GivenParams)
              => DefinesSwap(preamble_mods, GivenParams.symbol_to_swap)

\* C15 witness: at level 3 a texture with the pattern lines supplied has been
\* generated for a calculus document, whose subject pattern is wave
C15_Witness ==
    /\ SimpleGenerated
    /\ context_level = 3
    /\ Tag(attack_params) = "texture"
    /\ Get(GivenParams, "pattern", "dots") = "lines"
    /\ doc_analyzer /= None
    /\ get_subject_hint(doc_analyzer) = "calculus"
    /\ DrawsPattern(preamble_mods, "lines")

\* the symbol font_swap adapts to each subject, + for those it has none for
SubjectSymbol(subject) ==
    CASE subject = "complex_analysis" -> <<"z">>
      [] subject = "discrete_math" -> <<"\\", "i", "n">>
      [] subject = "linear_algebra" -> <<"=">>
      [] subject = "probability" -> <<"(">>
      [] subject = "machine_learning" -> <<"\\", "t", "h", "e", "t", "a">>
      [] OTHER -> <<"+">>

\* the attack names no text, no pattern, no symbol
OmitsText == Tag(attack_params) = "watermark_tiled" /\ "text" \notin DOMAIN GivenParams
OmitsPattern == Tag(attack_params) = "texture" /\ "pattern" \notin DOMAIN GivenParams
OmitsSymbol == Tag(attack_params) = "font_swap" /\ "symbol_to_swap" \notin DOMAIN GivenParams

\* C16 as the spec states it: at levels 0, 1 and 2 an attack that omits the
\* parameter is generated with the fixed default (text WATERMARK, pattern dots,
\* symbol +) whatever the subject hint of the document.
C16_SubjectDefaultsFromLevel3 ==
    (SimpleGenerated /\ context_level < 3) =>
        /\ OmitsText => TilesText(preamble_mods, <<"WATERMARK">>)
        /\ OmitsPattern => DrawsPattern(preamble_mods, "dots")
        /\ OmitsSymbol => DefinesSwap(preamble_mods, <<"+">>)

\* C16 amended: the subject-specific text of watermark_tiled and pattern of
\* texture are applied only at level >= 3, at levels 0, 1 and 2 the fixed
\* defaults WATERMARK and dots are generated; the subject-specific symbol of
\* font_swap is applied to the generated preamble from level 2 on, at levels 0
\* and 1 the command of the fixed default + is defined.  The body transform of
\* font_swap replaces the fixed default + at levels 0, 1 and 2 all the same.
C16_SubjectDefaultsByLevel ==
    SimpleGenerated =>
        /\ (OmitsText /\ context_level < 3) => TilesText(preamble_mods, <<"WATERMARK">>)
        /\ (OmitsPattern /\ context_level < 3) => DrawsPattern(preamble_mods, "dots")
        /\ (OmitsSymbol /\ context_level < 2) => DefinesSwap(preamble_mods, <<"+">>)
        /\ (OmitsSymbol /\ context_level >= 2) =>
              DefinesSwap(preamble_mods, SubjectSymbol(get_subject_hint(doc_analyzer)))
        /\ (OmitsSymbol /\ context_level < 3) =>
              modified_content = Joined(PiecesFrom(template_content, <<"+">>, 1),
                                        <<"\\weird", "weirdsymbol">>)

\* C16 witness: at level 2 a font_swap without symbol has been generated for a
\* probability document: the preamble defines the command of ( and no command of +
C16_Witness ==
    /\ SimpleGenerated
    /\ context_level = 2
    /\ OmitsSymbol
    /\ get_subject_hint(doc_analyzer) = "probability"
    /\ DefinesSwap(preamble_mods, <<"(">>)
    /\ ~DefinesSwap(preamble_mods, <<"+">>)

\* the text of s outside its recognized math environments: every environment
\* reduced to its \begin{e}\end{e}
RECURSIVE OutsideFrom(_, _)
OutsideFrom(s, i) ==
    LET opened == {j \in i..Len(s) : \E e \in ENV_NAMES :
                       /\ MatchAt(s, BeginEnv(e), j)
                       /\ IndexFrom(s, EndEnv(e), j + 4) > 0}
    IN  IF opened = {} THEN From(s, i)
        ELSE LET j == CHOOSE x \in opened : \A y \in opened : x <= y
                 e == s[j + 2]
             IN  SubSeq(s, i, j - 1) \o BeginEnv(e) \o EndEnv(e)
                     \o OutsideFrom(s, IndexFrom(s, EndEnv(e), j + 4) + 4)

\* the command font_swap puts in the place of a symbol
SwapCommand(symbol) ==
    LET alnum == SelectSeq(symbol, LAMBDA c : c \in LOWER \cup UPPER \cup DIGIT)
    IN  <<"\\weird">> \o (IF alnum = <<>> THEN <<"weirdsymbol">> ELSE alnum)

\* C17 as the spec states it: for a font_swap attack at context level >= 3 the
\* body transform leaves every character outside the recognized display-math
\* environments unchanged, for every document, those without align and equation
\* included; at levels 0-2 every occurrence of the symbol in the document is
\* replaced.
C17_FontSwapScopedAtLevel3 ==
    (SimpleGenerated /\ Tag(attack_params) = "font_swap") =>
        LET symbol == Get(GivenParams, "symbol_to_swap", <<"+">>)
        IN  /\ context_level >= 3 =>
                  OutsideFrom(modified_content, 1) = OutsideFrom(template_content, 1)
            /\ context_level < 3 =>
                  modified_content = Joined(PiecesFrom(template_content, symbol, 1),
                                            SwapCommand(symbol))

\* s from position i cut at its \begin{figure}...\end{figure} spans, shortest
\* span first: the texts outside the figures at the odd places, the figure spans
\* at the even ones
RECURSIVE FigureSplit(_, _)
FigureSplit(s, i) ==
    LET b == IndexFrom(s, BEGIN_FIGURE, i)
        e == IF b > 0 THEN IndexFrom(s, END_FIGURE, b + Len(BEGIN_FIGURE)) ELSE 0
    IN  IF e = 0 THEN <<From(s, i)>>
        ELSE <<SubSeq(s, i, b - 1), SubSeq(s, b, e + Len(END_FIGURE) - 1)>>
                 \o FigureSplit(s, e + Len(END_FIGURE))

\* the attack of the variant is a line_spacing whose body has been generated
LineSpacingGenerated == SimpleGenerated /\ Tag(attack_params) = "line_spacing"

\* the \linespread directive of the attack
GivenLinespread == <<"\\linespread{", FmtFloat(Get(GivenParams, "factor", <<11, 10>>)), "}">>

\* C18: for a line_spacing attack at context level >= 1 on a document with
\* figures, every \begin{figure}...\end{figure} span is in the output unmodified
\* and in its place, every span outside the figures is prefixed with the
\* \linespread directive, and the output without the directives is the original
\* content; at level 0, or without figures, the output is the directive followed
\* by the whole content.
C18_LineSpacingSkipsFigures ==
    LineSpacingGenerated =>
        IF /\ context_level >= 1
           /\ \/ Contains(template_content, BEGIN_FIGURE)
              \/ Contains(template_content, INCLUDEGRAPHICS)
        THEN LET before == FigureSplit(template_content, 1)
                 after == FigureSplit(modified_content, 1)
             IN  /\ Len(after) = Len(before)
                 /\ \A k \in 1..Len(before) :
                        after[k] = IF k % 2 = 0 THEN before[k]
                                   ELSE GivenLinespread \o before[k]
                 /\ Joined(PiecesFrom(modified_content, GivenLinespread, 1), <<>>)
                        = template_content
        ELSE modified_content = GivenLinespread \o template_content

\* C18 witness: a line_spacing at level >= 1 on a document with a figure and text
\* after it: the directive stands before the text after the figure
C18_Witness ==
    /\ LineSpacingGenerated
    /\ context_level >= 1
    /\ Len(FigureSplit(template_content, 1)) = 3
    /\ Contains(modified_content, END_FIGURE \o GivenLinespread)

\* the attack of the variant is a kerning whose body has been generated
KerningGenerated == SimpleGenerated /\ Tag(attack_params) = "kerning"

\* the kerning command of the attack
GivenMkern == <<"\\mkern", FmtFloat(Get(GivenParams, "amount", <<-1, 20>>)), "em">>

\* the texts of s outside math: outside the recognized environments and outside
\* the $...$ pairs
OutsideMath(s) ==
    LET pieces == PiecesFrom(OutsideFrom(s, 1), <<"$">>, 1)
    IN  {pieces[k] : k \in {n \in 1..Len(pieces) : n % 2 = 1}}

\* C19 as the spec states it: a kerning attack with an explicit target uses that
\* target at every context level and selects none itself; without a target the
\* content is unchanged at levels 0 and 1, and at level >= 2 the kerning command is
\* inserted after occurrences of the targets of get_target_math_for_attacks, and
\* only after occurrences inside math delimiters or math environments.
C19_KerningOnlyInsideMath ==
    KerningGenerated =>
        IF "target" \in DOMAIN GivenParams
        THEN LET t == <<"$">> \o GivenParams.target
             IN  modified_content \in
                     {template_content,
                      Joined(PiecesFrom(template_content, t \o <<"$">>, 1),
                             t \o GivenMkern \o <<"$">>)}
        ELSE IF context_level <= 1 THEN modified_content = template_content
        ELSE LET targets == get_target_math_for_attacks(DocumentAnalyzer(template_content))
                 pieces == PiecesFrom(modified_content, GivenMkern, 1)
             IN  /\ Joined(pieces, <<>>) = template_content
                 /\ \A k \in 1..(Len(pieces) - 1) :
                        \E n \in 1..Len(targets) :
                            /\ Len(pieces[k]) >= Len(targets[n])
                            /\ MatchAt(pieces[k], targets[n],
                                       Len(pieces[k]) - Len(targets[n]) + 1)
                 /\ \A outside \in OutsideMath(modified_content) :
                        ~Contains(outside, GivenMkern)

-----------------------------------------------------------------------------
(* run_full_experiment, src/run_generalized_experiment.py *)

NamedAttack(name, type, params) == [name |-> name, type |-> type, params |-> params]

SubAttack(type, params) == [type |-> type, params |-> params]

\* lines 34-117
attacks_to_run ==
    <<NamedAttack("baseline_clean", "none", <<>>),
      NamedAttack("A1_watermark_tiled_math", "watermark_tiled",
                  [text |-> <<"f'(x)">>, color |-> <<"gray!15">>, size |-> 8, angle |-> 20,
                   x_step |-> 4, y_step |-> 3]),
      NamedAttack("A2_texture_wave_pattern", "texture",
                  [pattern |-> "wave", color |-> <<"gray!20">>, density |-> <<2, 5>>]),
      NamedAttack("A3_layout_targeted_kerning", "kerning", [amount |-> <<-2, 25>>]),
      NamedAttack("A4_font_symbol_swap", "font_swap",
                  [symbol_to_swap |-> <<"=">>, font_name |-> <<"Comic Sans MS">>]),
      NamedAttack("A5_background_color", "background_color",
                  [color |-> <<"yellow!3">>, mode |-> "full"]),
      NamedAttack("A6_line_spacing", "line_spacing", [factor |-> <<27, 25>>]),
      NamedAttack("B1_combo_kerning_and_texture", "combo",
                  [sub_attacks |->
                     <<SubAttack("kerning", [amount |-> <<-2, 25>>]),
                       SubAttack("texture", [pattern |-> "lines", density |-> <<1, 2>>,
                                             color |-> <<"gray!18">>])>>]),
      NamedAttack("B2_combo_watermark_and_font", "combo",
                  [sub_attacks |->
                     <<SubAttack("watermark_tiled", [text |-> <<"sin(x)">>,
                                                     color |-> <<"gray!12">>, angle |-> -15]),
                       SubAttack("font_swap", [symbol_to_swap |-> <<"=">>,
                                               font_name |-> <<"Comic Sans MS">>])>>]),
      NamedAttack("B3_combo_background_and_kerning", "combo",
                  [sub_attacks |->
                     <<SubAttack("background_color", [color |-> <<"blue!2">>, mode |-> "full"]),
                       SubAttack("kerning", [amount |-> <<-7, 100>>])>>]),
      NamedAttack("C1_combo_kitchen_sink", "combo",
                  [sub_attacks |->
                     <<SubAttack("kerning", [amount |-> <<-7, 100>>]),
                       SubAttack("watermark_tiled", [text |-> <<"f(x)">>,
                                                     color |-> <<"gray!15">>, angle |-> 25]),
                       SubAttack("texture", [pattern |-> "dots", density |-> <<1, 1>>,
                                             color |-> <<"gray!12">>])>>])>>

\* lines 120-124
prompts_to_test == <<"transcription", "solving", "explanation">>

\* the templates the experiment is run on
ExperimentTemplates ==
    {Template(DOCUMENTCLASS \o USEPACKAGE_LAYOUTS \o <<"\n">> \o WATERMARK_AREA \o <<"\n">>,
              TRUE, body, TRUE) : body \in {b \in Bodies : Contains(b, BeginEnv("equation"))}}

ExperimentInit ==
    /\ template_content \in ExperimentTemplates
    /\ context_level \in LEVELS
    /\ attack_params = Attack("none", <<>>)
    /\ pc = "idle"
    /\ doc_analyzer = None
    /\ preamble_mods = <<>>
    /\ modified_content = <<>>
    /\ sub_index = 1
    /\ final_content = <<>>
    /\ variant_tex = NoFile
    /\ returncode = -1
    /\ result = NotReturned
    /\ subject_hint = NotReturned
    /\ target_math = NotReturned
    /\ loop_pc = "for"
    /\ attack_index = 1
    /\ prompt_index = 1
    /\ attempted = <<>>
    /\ log = <<>>
    /\ config = None
    /\ model_index = 0
    /\ test_counter = 0
    /\ output_tex = NoFile
    /\ current_template = "none"
    /\ adv_index = 0
    /\ apply_result = NotReturned

\* lines 132-140: the next attack of the list taken, create_exam_variant called with it
ProcessAttack ==
    /\ loop_pc = "for"
    /\ attack_index <= Len(attacks_to_run)
    /\ attack_params' = attacks_to_run[attack_index]
    /\ attempted' = Append(attempted, attacks_to_run[attack_index].name)
    /\ pc' = "start"
    /\ doc_analyzer' = None
    /\ preamble_mods' = <<>>
    /\ modified_content' = <<>>
    /\ sub_index' = 1
    /\ final_content' = <<>>
    /\ variant_tex' = NoFile
    /\ returncode' = -1
    /\ result' = NotReturned
    /\ loop_pc' = "called"
    /\ UNCHANGED <<v3, configurator, template_content, context_level, analysis, attack_index, prompt_index, log>>

\* CheckPdf calling create_exam_variant again for an attack without a PDF
CheckPdf_retry ==
    /\ loop_pc = "called"
    /\ pc = "done"
    /\ \E exists \in BOOLEAN :
          IF result = None \/ ~exists
          THEN /\ loop_pc' = "for"
               /\ UNCHANGED <<attack_index, prompt_index>>
          ELSE /\ prompt_index' = 1
               /\ loop_pc' = "testing"
               /\ UNCHANGED attack_index
    /\ pc' = "idle"
    /\ UNCHANGED <<v3, configurator, inputs, analysis, doc_analyzer, preamble_mods, modified_content, sub_index,
                   final_content, variant_tex, returncode, result, attempted, log>>

\* lines 142-146: no path returned, or no file at the path: the attack is passed
\* over; otherwise its tests begin
CheckPdf ==
    /\ loop_pc = "called"
    /\ pc = "done"
    /\ \E exists \in BOOLEAN :
          IF result = None \/ ~exists
          THEN /\ attack_index' = attack_index + 1
               /\ loop_pc' = "for"
               /\ UNCHANGED prompt_index
          ELSE /\ prompt_index' = 1
               /\ loop_pc' = "testing"
               /\ UNCHANGED attack_index
    /\ pc' = "idle"
    /\ UNCHANGED <<v3, configurator, inputs, analysis, doc_analyzer, preamble_mods, modified_content, sub_index,
                   final_content, variant_tex, returncode, result, attempted, log>>

\* lines 148-161, one iteration: run_test_suite called, its result appended to the log
RunTest ==
    /\ loop_pc = "testing"
    /\ prompt_index <= Len(prompts_to_test)
    /\ log' = Append(log, [attack |-> attack_params.name,
                           prompt_type |-> prompts_to_test[prompt_index]])
    /\ prompt_index' = prompt_index + 1
    /\ UNCHANGED <<v3, configurator, inputs, analysis, pc, doc_analyzer, preamble_mods, modified_content,
                   sub_index, final_content, variant_tex, returncode, result,
                   loop_pc, attack_index, attempted>>

\* line 148, the prompts exhausted
TestsDone ==
    /\ loop_pc = "testing"
    /\ prompt_index > Len(prompts_to_test)
    /\ attack_index' = attack_index + 1
    /\ loop_pc' = "for"
    /\ UNCHANGED <<v3, configurator, inputs, analysis, pc, doc_analyzer, preamble_mods, modified_content,
                   sub_index, final_content, variant_tex, returncode, result,
                   prompt_index, attempted, log>>

\* lines 132 and 163-165, the attacks exhausted
ExperimentComplete ==
    /\ loop_pc = "for"
    /\ attack_index > Len(attacks_to_run)
    /\ loop_pc' = "complete"
    /\ UNCHANGED <<v3, configurator, inputs, analysis, pc, doc_analyzer, preamble_mods, modified_content,
                   sub_index, final_content, variant_tex, returncode, result,
                   attack_index, prompt_index, attempted, log>>

ExperimentNext ==
    \/ ProcessAttack
    \/ Start
    \/ ComboPreambleStep
    \/ ComboPreambleDone
    \/ ComboBodyStep
    \/ ComboBodyDone
    \/ Single
    \/ Assemble
    \/ WriteVariant
    \/ Compile
    \/ CheckPdf
    \/ RunTest
    \/ TestsDone
    \/ ExperimentComplete

\* the position of the program: in the loops of run_full_experiment and in
\* create_exam_variant
position == <<loop_pc, pc, sub_index, prompt_index, attack_index>>

\* the program moves on from its position while the experiment is not complete
Running ==
    /\ loop_pc # "complete"
    /\ loop_pc' \in {"for", "called", "testing", "complete"}
    /\ pc' \in {"idle", "start", "combo_preamble", "combo_body", "single", "assemble",
               "write", "compile", "done", "raised"}
    /\ sub_index' \in 1..(MaxSubAttacks + 2)
    /\ prompt_index' \in 1..(Len(prompts_to_test) + 1)
    /\ attack_index' \in 1..(Len(attacks_to_run) + 1)

\* the interpreter runs the loop on, and the compiler and run_test_suite return:
\* every step of ExperimentNext changes the position, and a step is possible
\* at every position but the last
SpecExperiment == ExperimentInit /\ [][ExperimentNext]_vars /\ WF_position(Running)

\* the names of the first n attacks of the list
NamesTo(n) == [k \in 1..n |-> attacks_to_run[k].name]

\* the attacks create_exam_variant has been called with are the attacks of the
\* list up to the one being processed, each once and in the order of the list
AttemptedInOrder ==
    /\ Len(attempted) = IF loop_pc \in {"for", "complete"} THEN attack_index - 1
                        ELSE attack_index
    /\ Len(attempted) <= Len(attacks_to_run)
    /\ attempted = NamesTo(Len(attempted))

\* create_exam_variant has returned to the loop
VariantReturned == loop_pc = "called" /\ pc = "done"

\* the step of the loop after a None: no test run, no log entry, the next attack
\* of the list is next
SkippedAndContinued ==
    (VariantReturned /\ result = None) =>
        /\ log' = log
        /\ attack_index' = attack_index + 1
        /\ loop_pc' = "for"

\* the guard of an action of the loop holds: the program has a next step
StepPossible ==
    \/ loop_pc \in {"for", "testing"}
    \/ /\ loop_pc = "called"
       /\ pc \in {"start", "combo_preamble", "combo_body", "single", "assemble", "write",
                  "compile", "done"}

BeforeMarker(s) == SubSeq(s, 1, IndexFrom(s, BEGIN_DOCUMENT, 1) - 1)

\* the attacks whose body transform changes the document
BODY_ATTACKS == {"kerning", "font_swap", "line_spacing", "symbol_stretch"}

\* C21 as the spec states it: for every attack with a body effect (kerning,
\* font_swap, line_spacing, symbol_stretch) the text of the template before the
\* \begin{document} marker is unchanged by modify_body_content.
C21_BodyTransformKeepsPreamble ==
    (/\ SimpleGenerated
     /\ Tag(attack_params) \in BODY_ATTACKS
     /\ Contains(template_content, BEGIN_DOCUMENT)) =>
        /\ Contains(modified_content, BEGIN_DOCUMENT)
        /\ BeforeMarker(modified_content) = BeforeMarker(template_content)

\* the members of subs that are not combos themselves
WithoutCombos(subs) == SelectSeq(subs, LAMBDA a : Tag(a) # "combo")

\* the member the loop over sub_attacks is at is a combo
AtNestedCombo ==
    /\ Composite
    /\ pc \in {"combo_preamble", "combo_body"}
    /\ sub_index <= Len(SubAttacks)
    /\ Tag(SubAttacks[sub_index]) = "combo"

\* the iteration of the loop leaves the accumulated preamble and the body as
\* they are and goes on to the next member
PassedOver ==
    /\ preamble_mods' = preamble_mods
    /\ modified_content' = modified_content
    /\ sub_index' = sub_index + 1
    /\ pc' = pc

\* C22: a Composite with a Composite among its members is not rejected; the
\* nested combo adds no preamble code and changes nothing in the body, its inner
\* sub_attacks are never applied, and the other members are applied as usual: the
\* assembled source is that of the composite without its nested combos.
C22_NestedComboPassedOver ==
    /\ [][AtNestedCombo => PassedOver]_vars
    /\ []((Composite /\ JustAssembled /\ WithoutCombos(SubAttacks) # SubAttacks)
              => /\ preamble_mods = AccumulatedOver(WithoutCombos(SubAttacks),
                                                    Len(WithoutCombos(SubAttacks)))
                 /\ final_content = OutputOf(WithoutCombos(SubAttacks)))

\* C22 witness: a composite of a kerning and a nested combo holding a font_swap
\* of '=' has been assembled on a document with '$ab=c$': the kerning is in the
\* source, the '=' is still there and no command of the font_swap
C22_Witness ==
    /\ Composite
    /\ pc = "done"
    /\ Len(SubAttacks) = 2
    /\ Tag(SubAttacks[1]) = "kerning"
    /\ Tag(SubAttacks[2]) = "combo"
    /\ Contains(final_content, <<"$", "a", "b", "=", "c", "\\mkern">>)
    /\ ~Contains(final_content, <<"\\weird">>)

\* ---------------------------------------------------------------------------
\* run_experiment_v3.run_full_experiment: the loop over attacks_to_run, models
\* and prompts

\* all_attacks, lines 53-132: its first entries, by name and type
all_attacks ==
    <<[name |-> "baseline_clean", type |-> "none"],
      [name |-> "A1a_watermark_light_text", type |-> "watermark_tiled"],
      [name |-> "A3_layout_targeted_kerning", type |-> "kerning"]>>

\* lines 176-201 and 206-218: the baseline and the attacks of the subset; all
\* attacks when the subset is 'all' (none of the entries above is an OPT one)
FilterAttacks(attack_subset) ==
    IF attack_subset = "all" THEN all_attacks
    ELSE <<all_attacks[1]>> \o
         SelectSeq(Tail(all_attacks),
                   LAMBDA attack :
                       \/ attack_subset = "watermark" /\ attack.type = "watermark_tiled"
                       \/ attack_subset = "texture" /\ attack.type = "texture"
                       \/ attack_subset = "kerning" /\ attack.type = "kerning")

\* model_name.split(',') of a name given by its lexemes
RECURSIVE SplitModels(_)
SplitModels(model_name) ==
    LET j == IndexFrom(model_name, <<",">>, 1)
    IN  IF j = 0 THEN <<model_name>>
        ELSE <<SubSeq(model_name, 1, j - 1)>> \o SplitModels(From(model_name, j + 1))

\* lines 233-236
ModelsToTest(model_name, multi_model) ==
    IF multi_model /\ Contains(model_name, <<",">>)
    THEN SplitModels(model_name)
    ELSE <<model_name>>

\* the calls of run_full_experiment considered
Configurations ==
    {[attack_subset |-> "all", model_name |-> <<"gemma3:4b">>, multi_model |-> FALSE],
     [attack_subset |-> "texture", model_name |-> <<"gemma3:4b", ",", "llava">>, multi_model |-> FALSE],
     [attack_subset |-> "watermark", model_name |-> <<"gemma3:4b", ",", "llava">>, multi_model |-> TRUE],
     [attack_subset |-> "kerning", model_name |-> <<"gemma3:4b">>, multi_model |-> TRUE]}

attacks_to_run_v3 == FilterAttacks(config.attack_subset)

models_to_test == ModelsToTest(config.model_name, config.multi_model)

\* lines 268-272
total_tests == Len(attacks_to_run_v3) * Len(models_to_test) * Len(prompts_to_test)

\* what exam_attack_v3.create_exam_variant can hand back to the loop: a path,
\* None, or an exception
VariantOutcomes == {Returned(<<"variant.pdf">>), None, Raised("Exception")}

ExperimentV3Init ==
    /\ template_content = <<>>
    /\ context_level = 0
    /\ attack_params = Attack("none", <<>>)
    /\ pc = "idle"
    /\ doc_analyzer = None
    /\ preamble_mods = <<>>
    /\ modified_content = <<>>
    /\ sub_index = 1
    /\ final_content = <<>>
    /\ variant_tex = NoFile
    /\ returncode = -1
    /\ result = NotReturned
    /\ subject_hint = NotReturned
    /\ target_math = NotReturned
    /\ config \in Configurations
    /\ loop_pc = "for"
    /\ attack_index = 1
    /\ model_index = 1
    /\ prompt_index = 1
    /\ test_counter = 0
    /\ attempted = <<>>
    /\ log = <<>>
    /\ output_tex = NoFile
    /\ current_template = "none"
    /\ adv_index = 0
    /\ apply_result = NotReturned

\* what the loop of run_experiment_v3 never touches
pipeline == <<inputs, analysis, pc, doc_analyzer, preamble_mods, modified_content,
              sub_index, final_content, variant_tex, returncode, configurator>>

\* lines 280-288: the next attack taken, create_exam_variant called with it
CreateVariantV3 ==
    /\ loop_pc = "for"
    /\ attack_index <= Len(attacks_to_run_v3)
    /\ attempted' = Append(attempted, attacks_to_run_v3[attack_index].name)
    /\ result' \in VariantOutcomes
    /\ loop_pc' = "called"
    /\ UNCHANGED <<pipeline, v3, attack_index, prompt_index, log>>

\* the entry written for an attack without a PDF, lines 292-301 and 306-313
GenerationEntry(attack, status) == [attack |-> attack.name, status |-> status]

\* the entry written for a test, lines 344-354 and 363-372
TestEntry(attack, model, prompt_name, status) ==
    [attack |-> attack.name, model |-> model, prompt_type |-> prompt_name, status |-> status]

\* lines 289-316: an exception or a missing PDF is logged and the attack passed
\* over; otherwise the loop over the models begins
CheckPdfV3 ==
    /\ loop_pc = "called"
    /\ LET attack == attacks_to_run_v3[attack_index]
       IN  \E exists \in BOOLEAN :
              IF result = Raised("Exception")
              THEN /\ log' = Append(log, GenerationEntry(attack, "error"))
                   /\ attack_index' = attack_index + 1
                   /\ loop_pc' = "for"
                   /\ UNCHANGED model_index
              ELSE IF result = None \/ ~exists
              THEN /\ log' = Append(log, GenerationEntry(attack, "failed"))
                   /\ attack_index' = attack_index + 1
                   /\ loop_pc' = "for"
                   /\ UNCHANGED model_index
              ELSE /\ model_index' = 1
                   /\ loop_pc' = "models"
                   /\ UNCHANGED <<log, attack_index>>
    /\ UNCHANGED <<pipeline, result, config, test_counter, prompt_index, attempted>>

\* lines 319-322: the next model taken
NextModel ==
    /\ loop_pc = "models"
    /\ model_index <= Len(models_to_test)
    /\ prompt_index' = 1
    /\ loop_pc' = "prompts"
    /\ UNCHANGED <<pipeline, result, v3, attack_index, attempted, log>>

\* RunTestSuite with the exception of run_test_suite left uncaught: the loop ends
RunTestSuite_uncaught ==
    /\ loop_pc = "prompts"
    /\ prompt_index <= Len(prompts_to_test)
    /\ test_counter' = test_counter + 1
    /\ \E status \in {"success", "error"} :
          IF status = "success"
          THEN /\ log' = Append(log, TestEntry(attacks_to_run_v3[attack_index],
                                               models_to_test[model_index],
                                               prompts_to_test[prompt_index], status))
               /\ prompt_index' = prompt_index + 1
               /\ UNCHANGED loop_pc
          ELSE /\ loop_pc' = "complete"
               /\ UNCHANGED <<log, prompt_index>>
    /\ UNCHANGED <<pipeline, result, config, model_index, attack_index, attempted>>

\* lines 322-372, one iteration: the counter advanced, run_test_suite called, and
\* an entry written for its result or for its exception
RunTestSuite ==
    /\ loop_pc = "prompts"
    /\ prompt_index <= Len(prompts_to_test)
    /\ test_counter' = test_counter + 1
    /\ \E status \in {"success", "error"} :
          log' = Append(log, TestEntry(attacks_to_run_v3[attack_index],
                                       models_to_test[model_index],
                                       prompts_to_test[prompt_index], status))
    /\ prompt_index' = prompt_index + 1
    /\ UNCHANGED <<pipeline, result, config, model_index, loop_pc, attack_index, attempted>>

\* line 322, the prompts exhausted
PromptsDone ==
    /\ loop_pc = "prompts"
    /\ prompt_index > Len(prompts_to_test)
    /\ model_index' = model_index + 1
    /\ loop_pc' = "models"
    /\ UNCHANGED <<pipeline, result, config, test_counter, prompt_index, attack_index,
                   attempted, log>>

\* line 319, the models exhausted
ModelsDone ==
    /\ loop_pc = "models"
    /\ model_index > Len(models_to_test)
    /\ attack_index' = attack_index + 1
    /\ loop_pc' = "for"
    /\ UNCHANGED <<pipeline, result, v3, prompt_index, attempted, log>>

\* lines 280 and 375-385, the attacks exhausted
AllAttacksProcessed ==
    /\ loop_pc = "for"
    /\ attack_index > Len(attacks_to_run_v3)
    /\ loop_pc' = "complete"
    /\ UNCHANGED <<pipeline, result, v3, attack_index, prompt_index, attempted, log>>

ExperimentV3Next ==
    \/ CreateVariantV3
    \/ CheckPdfV3
    \/ NextModel
    \/ RunTestSuite
    \/ PromptsDone
    \/ ModelsDone
    \/ AllAttacksProcessed

\* create_exam_variant and run_test_suite return or raise, and the interpreter
\* runs the loop on
SpecExperimentV3 == ExperimentV3Init /\ [][ExperimentV3Next]_vars /\ WF_vars(ExperimentV3Next)

\* the entries of the log written for the attack of that name
EntriesOf(name) == SelectSeq(log, LAMBDA e : e.attack = name)

\* an entry written for an attack as a whole, not for a test
ForGeneration(e) == "model" \notin DOMAIN e

\* the number of entries written for the test of the attack with that model and prompt
TestEntries(name, model, prompt_name) ==
    Cardinality({k \in 1..Len(log) :
                    /\ ~ForGeneration(log[k])
                    /\ log[k].attack = name
                    /\ log[k].model = model
                    /\ log[k].prompt_type = prompt_name})

\* the attack left one entry, with status failed or error and for no test
OneGenerationEntry(name) ==
    LET es == EntriesOf(name)
    IN  /\ Len(es) = 1
        /\ ForGeneration(es[1])
        /\ es[1].status \in {"failed", "error"}

\* the attack left one entry for every model and prompt, with status success or error
OneEntryPerTest(name) ==
    LET es == EntriesOf(name)
    IN  /\ Len(es) = Len(models_to_test) * Len(prompts_to_test)
        /\ \A k \in 1..Len(es) : ~ForGeneration(es[k]) /\ es[k].status \in {"success", "error"}
        /\ \A m \in 1..Len(models_to_test), p \in 1..Len(prompts_to_test) :
              TestEntries(name, models_to_test[m], prompts_to_test[p]) = 1

\* the loop has finished with the attack at that position of attacks_to_run
Processed(i) == attack_index > i \/ loop_pc = "complete"

\* the names of the first n attacks of attacks_to_run
NamesToV3(n) == [i \in 1..n |-> attacks_to_run_v3[i].name]

\* create_exam_variant handed back no PDF: None, an exception, or the path of
\* a file that is not there
WithoutPdf ==
    /\ loop_pc = "called"
    /\ loop_pc' = "for"

\* C23: in the loop of run_experiment_v3 every attack of attacks_to_run leaves
\* entries in the log: one entry with status failed or error when the generation
\* of the PDF returned nothing or raised (and it is then that the attack is passed
\* over), otherwise one entry with status success or error for every model and
\* prompt; an exception in a test does not keep the loop from the remaining
\* tests and attacks, every attack is attempted and the loop completes; and
\* test_counter never exceeds total_tests
C23_EveryAttackLogged ==
    /\ [](\A i \in 1..Len(attacks_to_run_v3) :
             Processed(i) =>
                 \/ OneGenerationEntry(attacks_to_run_v3[i].name)
                 \/ OneEntryPerTest(attacks_to_run_v3[i].name))
    /\ []((loop_pc = "called" /\ result \in {None, Raised("Exception")}) => ENABLED WithoutPdf)
    /\ [][(loop_pc = "called" /\ result \in {None, Raised("Exception")}) => WithoutPdf]_vars
    /\ [][WithoutPdf => /\ log' = Append(log, GenerationEntry(attacks_to_run_v3[attack_index],
                                              IF result = Raised("Exception")
                                              THEN "error" ELSE "failed"))
                        /\ attack_index' = attack_index + 1]_vars
    /\ [][(loop_pc = "called" /\ loop_pc' = "models") => log' = log]_vars
    /\ [](test_counter <= total_tests)
    /\ <>[](loop_pc = "complete" /\ attempted = NamesToV3(Len(attacks_to_run_v3)))

\* the loop is complete; one attack was passed over with a failed entry, and for
\* another a test that raised was followed by a test that succeeded
C23_Witness ==
    /\ loop_pc = "complete"
    /\ Len(models_to_test) = 2
    /\ test_counter < total_tests
    /\ \E k \in 1..Len(log) : ForGeneration(log[k]) /\ log[k].status = "failed"
    /\ \E j, k \in 1..Len(log) :
          /\ j < k
          /\ ~ForGeneration(log[j]) /\ log[j].status = "error"
          /\ ~ForGeneration(log[k]) /\ log[k].status = "success"
          /\ log[j].attack = log[k].attack

\* ---------------------------------------------------------------------------
\* attack_configurator.apply_attack for a mixed_combo, and
\* advanced_attacks.create_advanced_attack_variant

\* a Python dict, by its items in order, and a Python list
Dict(items) == [items |-> items]
List(elems) == [elems |-> elems]

\* advanced_attacks.py lines 192-196, the default of params.get("symbols", ...)
DEFAULT_SYMBOLS ==
    Dict(<<<< <<"=">>, <<"\\equals">> >>,
           << <<"+">>, <<"\\plus">> >>,
           << <<"-">>, <<"\\minus">> >>>>)

\* get_advanced_preamble_code, for the types of AdvancedPool: the code of
\* custom_environment_targeting, and '' for a type without a branch
get_advanced_preamble_code(adv_attack) ==
    LET attack_type == TypeOf(adv_attack)
        params == ParamsOf(adv_attack)
    IN  IF attack_type = "custom_environment_targeting"
        THEN LET target_env == Get(params, "target_env", <<"matrix">>)
                 color == Get(params, "color", <<"gray!15">>)
             IN  <<"\n", "%", " ", "Environment targeting attack", "\n",
                   "\\usepackage", "{", "etoolbox", "}", "\n",
                   "\\AtBeginEnvironment", "{">> \o target_env \o <<"}", "{", "%", "\n",
                   " ", " ", "\\colorlet", "{", "oldcolor", "}", "{", ".", "}", "%", "\n",
                   " ", " ", "\\color", "{">> \o color \o <<"}", "%", "\n",
                   "}", "\n",
                   "\\AtEndEnvironment", "{">> \o target_env \o <<"}", "{", "%", "\n",
                   " ", " ", "\\color", "{", "oldcolor", "}", "%", "\n",
                   "}", "\n">>
        ELSE <<>>

\* lines 199-201: the \newcommand lines of the items from position i on
RECURSIVE CommandDefs(_, _)
CommandDefs(items, i) ==
    IF i > Len(items) THEN <<>>
    ELSE <<"\\newcommand", "{">> \o items[i][2] \o <<"}", "{">> \o items[i][1] \o <<"}", "\n">>
             \o CommandDefs(items, i + 1)

\* lines 207-213: the four replacements of every item up to position n, in order
RECURSIVE SubstituteSymbols(_, _, _)
SubstituteSymbols(content, items, n) ==
    IF n = 0 THEN content
    ELSE LET before == SubstituteSymbols(content, items, n - 1)
             sym == items[n][1]
             cmd == items[n][2]
             c1 == Replace(before, <<"$">> \o sym, <<"$">> \o cmd)
             c2 == Replace(c1, sym \o <<"$">>, cmd \o <<"$">>)
             c3 == Replace(c2, sym \o <<" ">>, cmd \o <<" ">>)
         IN  Replace(c3, <<" ">> \o sym, <<" ">> \o cmd)

\* apply_advanced_attack, for the types of AdvancedPool: symbol_substitution
\* (symbols.items() of a value that is no dict raises), and the content as it is
\* for a type without a branch
apply_advanced_attack(content, adv_attack) ==
    LET attack_type == TypeOf(adv_attack)
        params == ParamsOf(adv_attack)
    IN  IF attack_type = "symbol_substitution"
        THEN LET symbols_to_replace == Get(params, "symbols", DEFAULT_SYMBOLS)
             IN  IF "items" \notin DOMAIN symbols_to_replace
                 THEN Raised("AttributeError")
                 ELSE LET items == symbols_to_replace.items
                          command_defs == <<"\n", "%", " ", "Symbol substitution commands", "\n">>
                                              \o CommandDefs(items, 1)
                          with_defs == Replace(content, BEGIN_DOCUMENT,
                                               command_defs \o <<"\n">> \o BEGIN_DOCUMENT)
                      IN  Returned(SubstituteSymbols(with_defs, items, Len(items)))
        ELSE Returned(content)

\* create_advanced_attack_variant on the file at template_path: what it returns,
\* and the text it writes to output_path when it returns True
create_advanced_attack_variant(template_file, adv_attack) ==
    IF ~template_file.exists THEN [ok |-> FALSE]
    ELSE LET preamble == get_advanced_preamble_code(adv_attack)
             modified == apply_advanced_attack(template_file.text, adv_attack)
         IN  IF modified.raised THEN [ok |-> FALSE]
             ELSE [ok |-> TRUE,
                   text |-> IF Contains(modified.value, BEGIN_DOCUMENT)
                            THEN Replace(modified.value, BEGIN_DOCUMENT,
                                         preamble \o <<"\n">> \o BEGIN_DOCUMENT)
                            ELSE preamble \o <<"\n">> \o modified.value]

\* the advanced attacks of the configurations: one with preamble code, one that
\* changes the body, and one whose symbols are given as a list
AdvancedPool ==
    {[type |-> "custom_environment_targeting", params |-> [target_env |-> <<"equation">>]],
     [type |-> "symbol_substitution", params |-> [symbols |-> Dict(<<<< <<"x">>, <<"\\varx">> >>>>)]],
     [type |-> "symbol_substitution", params |-> [symbols |-> List(<<<<"=">>, <<"+">>>>)]]}

\* the basic attacks of the configurations
BasicAttackLists ==
    {<<>>,
     <<Attack("kerning", [target |-> <<"a", "b", "=", "c">>])>>,
     <<Attack("texture", <<>>), Attack("symbol_stretch", <<>>)>>}

\* attack_configurator.py lines 299-307: the configuration of a mixed combo
MixedCombo(basic_attacks, advanced_attacks) ==
    [name |-> "M", type |-> "mixed_combo",
     params |-> [basic_attacks |-> basic_attacks, advanced_attacks |-> advanced_attacks]]

MixedCombos ==
    {MixedCombo(basic, advanced) :
        basic \in BasicAttackLists, advanced \in SeqsUpTo(AdvancedPool, 2)}

\* attack_config.get("params", {}).get("basic_attacks", [])
basic_attacks == Get(ParamsOf(config), "basic_attacks", <<>>)

\* attack_config.get("params", {}).get("advanced_attacks", [])
advanced_attacks == Get(ParamsOf(config), "advanced_attacks", <<>>)

\* lines 346-352
basic_config == [name |-> "basic_combo", type |-> "combo",
                 params |-> [sub_attacks |-> basic_attacks]]

\* what an earlier run can have left at output_path
StaleOutput == FileWith(DOCUMENTCLASS \o BEGIN_DOCUMENT \o <<"\n", "old", "\n">> \o END_DOCUMENT)

\* the file the path in current_template names
FileAt(path) ==
    CASE path = "template_path" -> FileWith(template_content)
      [] path = "temp_path" -> variant_tex
      [] path = "output_path" -> output_tex

ApplyInit ==
    /\ template_content \in {Template(DOCUMENTCLASS \o WATERMARK_AREA \o <<"\n">>, TRUE, body, FALSE) :
                                body \in Bodies}
    /\ context_level = 2
    /\ config \in MixedCombos
    /\ output_tex \in {NoFile, StaleOutput}
    /\ attack_params = Attack("none", <<>>)
    /\ pc = "idle"
    /\ doc_analyzer = None
    /\ preamble_mods = <<>>
    /\ modified_content = <<>>
    /\ sub_index = 1
    /\ final_content = <<>>
    /\ variant_tex = NoFile
    /\ returncode = -1
    /\ result = NotReturned
    /\ subject_hint = NotReturned
    /\ target_math = NotReturned
    /\ loop_pc = "apply"
    /\ attack_index = 0
    /\ prompt_index = 0
    /\ attempted = <<>>
    /\ log = <<>>
    /\ model_index = 0
    /\ test_counter = 0
    /\ current_template = "none"
    /\ adv_index = 0
    /\ apply_result = NotReturned

\* the loops of the experiment runners, which apply_attack is no part of
loops == <<attack_index, prompt_index, attempted, log, v3>>

\* lines 326-358 and 393-401: a temporary file made and create_exam_variant called
\* with the basic attacks as a combo; without basic attacks the loop over the
\* advanced attacks begins at the template, or None is returned when there are none
ApplyAttack ==
    /\ loop_pc = "apply"
    /\ IF basic_attacks # <<>>
       THEN /\ variant_tex' = FileWith(<<>>)
            /\ attack_params' = basic_config
            /\ pc' = "start"
            /\ loop_pc' = "basic"
            /\ UNCHANGED <<current_template, adv_index, apply_result>>
       ELSE IF advanced_attacks = <<>>
       THEN /\ apply_result' = None
            /\ loop_pc' = "returned"
            /\ UNCHANGED <<variant_tex, attack_params, pc, current_template, adv_index>>
       ELSE /\ current_template' = "template_path"
            /\ adv_index' = 1
            /\ loop_pc' = "advanced"
            /\ UNCHANGED <<variant_tex, attack_params, pc, apply_result>>
    /\ UNCHANGED <<loops, template_content, context_level, analysis, doc_analyzer, preamble_mods,
                   modified_content, sub_index, final_content, returncode, result, output_tex>>

\* lines 352-368: create_exam_variant has returned or raised; without a result
\* the temporary file is removed and None returned, an exception leaves
\* apply_attack, otherwise the loop over the advanced attacks begins at temp_path
CheckBasic ==
    /\ loop_pc = "basic"
    /\ pc \in {"done", "raised"}
    /\ IF pc = "raised"
       THEN /\ loop_pc' = "raised"
            /\ UNCHANGED <<variant_tex, current_template, adv_index, apply_result>>
       ELSE IF result = None
       THEN /\ variant_tex' = NoFile
            /\ apply_result' = None
            /\ loop_pc' = "returned"
            /\ UNCHANGED <<current_template, adv_index>>
       ELSE /\ current_template' = "temp_path"
            /\ adv_index' = 1
            /\ loop_pc' = "advanced"
            /\ UNCHANGED <<variant_tex, apply_result>>
    /\ pc' = "idle"
    /\ UNCHANGED <<loops, inputs, analysis, doc_analyzer, preamble_mods, modified_content,
                   sub_index, final_content, returncode, result, output_tex>>

\* lines 371-381 and 405-415, one iteration: the attack applied to the file at
\* current_template and written to output_path, or nothing written when it
\* failed; output_path is the template of the next iteration
ApplyAdvanced ==
    /\ loop_pc = "advanced"
    /\ adv_index <= Len(advanced_attacks)
    /\ LET advanced_result == create_advanced_attack_variant(FileAt(current_template),
                                                             advanced_attacks[adv_index])
       IN  output_tex' = IF advanced_result.ok THEN FileWith(advanced_result.text) ELSE output_tex
    /\ current_template' = "output_path"
    /\ adv_index' = adv_index + 1
    /\ UNCHANGED <<loops, inputs, analysis, pc, doc_analyzer, preamble_mods, modified_content,
                   sub_index, final_content, variant_tex, returncode, result, loop_pc,
                   apply_result>>

\* lines 383-392 and 417-422: the temporary file removed, output_path compiled;
\* the compiler is an external program and fails without its input
AdvancedDone ==
    /\ loop_pc = "advanced"
    /\ adv_index > Len(advanced_attacks)
    /\ variant_tex' = NoFile
    /\ \E compile_result \in (IF output_tex.exists THEN BOOLEAN ELSE {FALSE}) :
          apply_result' = IF compile_result THEN PdfPath ELSE None
    /\ loop_pc' = "returned"
    /\ UNCHANGED <<loops, inputs, analysis, pc, doc_analyzer, preamble_mods, modified_content,
                   sub_index, final_content, returncode, result, output_tex,
                   current_template, adv_index>>

ApplyNext ==
    \/ ApplyAttack
    \/ Start
    \/ ComboPreambleStep
    \/ ComboPreambleDone
    \/ ComboBodyStep
    \/ ComboBodyDone
    \/ Assemble
    \/ WriteVariant
    \/ Compile
    \/ CheckBasic
    \/ ApplyAdvanced
    \/ AdvancedDone

SpecApplyAttack == ApplyInit /\ [][ApplyNext]_vars

\* the file that holds the last document produced before the advanced attack at
\* position k + 1: the result of the basic combo or the template, and after
\* every attack that did not fail its result
RECURSIVE LastProduced(_)
LastProduced(k) ==
    IF k = 0
    THEN FileWith(IF basic_attacks # <<>> THEN final_content ELSE template_content)
    ELSE LET advanced_result == create_advanced_attack_variant(LastProduced(k - 1),
                                                               advanced_attacks[k])
         IN  IF advanced_result.ok THEN FileWith(advanced_result.text) ELSE LastProduced(k - 1)

\* C24: in apply_attack for a mixed_combo every advanced attack is applied to the
\* last document produced before it (the result of the basic combo or the
\* template for the first; after a failed attack the document the attack
\* before it left), and the temporary file of the basic attacks does not exist
\* when apply_attack has returned
C24_AdvancedAppliedInSequence ==
    /\ (loop_pc = "advanced" /\ adv_index <= Len(advanced_attacks))
           => FileAt(current_template) = LastProduced(adv_index - 1)
    /\ loop_pc = "returned" => variant_tex = NoFile

\* the loop over the members is at a font_swap member, at a level and on a
\* document for which it replaces inside the display-math environments only
AtFontSwapMember ==
    /\ pc = "combo_body"
    /\ sub_index <= Len(SubAttacks)
    /\ Tag(SubAttacks[sub_index]) = "font_swap"
    /\ context_level >= 3
    /\ IsAnalyzer(doc_analyzer)
    /\ doc_analyzer.has_complex_math

\* no display-math environment of the text holds the symbol
SwappedInEnvironments(text, symbol) ==
    LET envs == _find_math_environments(text)
    IN  \A k \in 1..Len(envs) : ~Contains(envs[k].content, symbol)

\* C25: in a Composite at context level 3 a font_swap member replaces its symbol
\* inside every recognized display-math environment of the evolving body, also
\* when a member before it has changed the content of the environment, and the
\* facts of the Document are not changed by the step
C25_FontSwapOnEvolvingBody ==
    [][AtFontSwapMember =>
           /\ SwappedInEnvironments(modified_content',
                                    Get(ParamsOf(SubAttacks[sub_index]), "symbol_to_swap", <<"+">>))
           /\ doc_analyzer' = doc_analyzer]_vars

\* C26: for every font_swap attack, level and document, the command that the body
\* transform puts in the place of the symbol is the command the generated
\* preamble defines with \newcommand, and the definition renders the symbol that
\* was replaced in the body, also when symbol_to_swap is omitted
C26_SwapCommandDefined ==
    (SimpleGenerated /\ Tag(attack_params) = "font_swap") =>
        LET symbol == Get(GivenParams, "symbol_to_swap", <<"+">>)
        IN  /\ (context_level < 3 /\ Contains(template_content, symbol))
                   => Contains(modified_content, SwapCommand(symbol))
            /\ DefinesSwap(preamble_mods, symbol)

\* the definition of the scaling command with the literal target as its body,
\* as line 506 writes it
StretchDefinition(params) ==
    <<"\\newcommand{\\stretchedsymbol}{\\scalebox{", FmtFloat(Get(params, "x_scale", <<21, 20>>)),
      "}[", FmtFloat(Get(params, "y_scale", <<1, 1>>)), "]{">>
        \o Get(params, "target", <<"=">>) \o <<"}}">>

\* C27: for every symbol_stretch attack the body transform returns a document
\* (it does not raise) in which the inserted definition of the scaling command
\* still has the literal target as its body, and in which, the definition taken
\* out, every occurrence of the target is replaced by the scaling command
C27_StretchDefinitionKeepsTarget ==
    (~Composite /\ Tag(attack_params) = "symbol_stretch") =>
        /\ pc /= "raised"
        /\ SimpleGenerated =>
              /\ Contains(modified_content, StretchDefinition(GivenParams))
              /\ Replace(modified_content, <<"\n", "\n">> \o StretchDefinition(GivenParams), <<>>)
                     = Replace(template_content, Get(GivenParams, "target", <<"=">>),
                               <<"\\stretchedsymbol">>)

\* the targets the automatic kerning takes: the candidates of the analyzer that
\* are not shorter than five characters
SelectedTargets ==
    LET targets == get_target_math_for_attacks(doc_analyzer)
    IN  {targets[k] : k \in {n \in 1..Len(targets) : CharLen(targets[n]) >= 5}}

\* C28: for a kerning attack without target at context level >= 2 every
\* occurrence of a selected target in the document is followed by exactly one
\* inserted kerning command, also when an expression is a candidate twice or a
\* candidate is part of another
C28_OneKerningPerOccurrence ==
    (KerningGenerated /\ "target" \notin DOMAIN GivenParams /\ context_level >= 2) =>
        \A target \in SelectedTargets :
            /\ Count(modified_content, target \o GivenMkern) = Count(template_content, target)
            /\ Count(modified_content, target \o GivenMkern \o GivenMkern) = 0

\* the template holds an insertion point: the placeholder or \begin{document}
HasInsertionPoint ==
    Contains(template_content, WATERMARK_AREA) \/ Contains(template_content, BEGIN_DOCUMENT)

\* C29: for every template with an insertion point the generated preamble code
\* is in the assembled source exactly once, also when the placeholder or
\* \begin{document} is written more than once in the template
C29_PreambleExactlyOnce ==
    (JustAssembled /\ HasInsertionPoint /\ preamble_mods /= <<>>)
        => Count(final_content, preamble_mods) = 1

\* C30: in create_exam_variant every body transform is applied before the
\* preamble code is spliced in: once the source is assembled the body is not
\* transformed again, the code spliced in is the code get_preamble_code returned
\* (for a Composite the accumulated code of its members), and it stands in the
\* assembled source of a template with an insertion point as it was generated:
\* no body transform of the attack or of a member has altered it
C30_PreambleSplicedVerbatim ==
    /\ [][final_content /= <<>> => modified_content' = modified_content]_vars
    /\ []((JustAssembled /\ HasInsertionPoint) => Contains(final_content, preamble_mods))
    /\ []((JustAssembled /\ ~Composite)
              => preamble_mods = get_preamble_code(attack_params, context_level, doc_analyzer))
    /\ []((JustAssembled /\ Composite)
              => preamble_mods = AccumulatedOver(SubAttacks, Len(SubAttacks)))

\* a font_swap of = has been assembled: the body transform has replaced the = of
\* the document, and the preamble code, which holds the symbol = itself, stands
\* in the source as generated
C30_Witness ==
    /\ JustAssembled
    /\ Tag(attack_params) = "font_swap"
    /\ Get(GivenParams, "symbol_to_swap", <<"+">>) = <<"=">>
    /\ modified_content /= template_content
    /\ Contains(preamble_mods, <<"}{{\\weirdfont ", "=", "}}\n">>)
    /\ Contains(final_content, preamble_mods)
    /\ Contains(final_content, SwapCommand(<<"=">>) \o <<"z">>)

=============================================================================
